---- MODULE Spec2Model ----
(***************************************************************************)
(* Model of tally-ai-service: the periodic refresh of the derived tables   *)
(* ai.customer_summary, ai.business_overview and public.dashboard_metrics  *)
(* (jobs/refresh_scheduler.py).  The tables are sets of rows; every SQL    *)
(* statement of a stage is one step of the job that runs it, a stage is    *)
(* one READ COMMITTED transaction, and the two scheduler jobs (the startup *)
(* run and the 5-minute interval run) interleave at statement boundaries.  *)
(***************************************************************************)
EXTENDS Integers, Sequences, FiniteSets, TLC

(***************************************************************************)
(* Bounds of the model.                                                    *)
(***************************************************************************)
\* interval firings observed (the startup job fires once)
MaxRuns == 1
\* last clock tick observed
MaxClock == 1
\* clock ticks in one calendar day
TicksPerDay == 1
\* calendar days in one year
DaysPerYear == 2
\* vouchers drawn for the tenant under study in the data-rich initial states
MaxVouchers == 2
\* payment allocations drawn in the data-rich initial states
MaxAllocations == 2

(***************************************************************************)
(* SQL values.  NULL is the empty tuple, a present value v is <<v>>.       *)
(***************************************************************************)
Null == <<>>

Some(v) == <<v>>

Coalesce(x, d) == IF x = Null THEN d ELSE x[1]

\* the numeric value 'NaN': PostgreSQL orders it above every number and
\* equal to itself, so it is a value above every amount of the model; sums
\* and differences with it are NaN again
NaN == 2000000000

Abs(x) == IF x < 0 THEN -x ELSE x

\* SUM over rows: F maps each row to the value summed (0 for no rows;
\* callers that need SQL's NULL for no rows test the rows themselves)
SumOver(F) ==
    LET RECURSIVE go(_)
        go(T) == IF T = {} THEN 0
                 ELSE LET r == CHOOSE x \in T : TRUE
                      IN  F[r] + go(T \ {r})
    IN  IF \E r \in DOMAIN F : F[r] = NaN THEN NaN ELSE go(DOMAIN F)

\* opening + sales - receipts in numeric arithmetic
Balance(opening, sales, receipts) ==
    IF opening = NaN \/ sales = NaN \/ receipts = NaN THEN NaN
    ELSE opening + sales - receipts

Min(S) == CHOOSE x \in S : \A y \in S : x <= y

Max(S) == CHOOSE x \in S : \A y \in S : x >= y

(***************************************************************************)
(* Text.  A name is a tuple of one-character strings, so that LOWER() is   *)
(* computed character by character.  A NULL name is NullName.              *)
(***************************************************************************)
NullName == <<"NULL">>

LowerMap ==
    ("A" :> "a") @@ ("B" :> "b") @@ ("C" :> "c") @@ ("D" :> "d") @@
    ("E" :> "e") @@ ("H" :> "h") @@ ("I" :> "i") @@ ("K" :> "k") @@
    ("N" :> "n") @@ ("O" :> "o") @@ ("P" :> "p") @@ ("S" :> "s") @@
    ("T" :> "t") @@ ("U" :> "u") @@ ("Y" :> "y") @@ ("Z" :> "z")

LowerChar(c) == IF c \in DOMAIN LowerMap THEN LowerMap[c] ELSE c

Lower(name) == [i \in 1..Len(name) |-> LowerChar(name[i])]

\* the literals of refresh_scheduler.py line 224
ExcludedNames ==
    { <<"c","a","s","h">>,
      <<"b","a","n","k">>,
      <<"c","a","s","h"," ","i","n"," ","h","a","n","d">>,
      <<"p","e","t","t","y"," ","c","a","s","h">>,
      <<"b","a","n","k"," ","a","c","c","o","u","n","t">>,
      <<"b","a","n","k"," ","a","c","c","o","u","n","t","s">> }

\* the voucher_type literals of the INSERT's subqueries
SalesLabels == {"Sales", "SALES", "Invoice", "Sales Invoice"}

ReceiptLabels == {"Receipt", "RECEIPT", "Payment Received"}

\* the shorter lists used by average_order_value, outstanding_formatted and
\* balance_status
SalesLabelsShort == {"Sales", "SALES", "Invoice"}

ReceiptLabelsShort == {"Receipt", "RECEIPT"}

(***************************************************************************)
(* State.                                                                  *)
(*   companies, ledgers, vouchers : the Ledger Store (read only here)      *)
(*   customer_summary, business_overview, dashboard_metrics : the          *)
(*       committed rows of the three derived tables                        *)
(*   now    : the database clock                                           *)
(*   slow   : whether a fleet cycle may outlast the 5-minute interval      *)
(*   pc     : where each scheduler job stands                              *)
(*   queue  : the companies a job's fleet cycle has still to refresh       *)
(*   cur    : the company a job is refreshing, or has refreshed last       *)
(*   runs   : how many fleet cycles a job has started                      *)
(*   tx     : the open transaction of a job: the committed rows it has     *)
(*            deleted or superseded (and holds locked), the row versions   *)
(*            it will add at commit, the period it computed, and the rows  *)
(*            a blocked DELETE is waiting for; and, for the properties,    *)
(*            the committed rows the job's last rolled-back transaction    *)
(*            had deleted or superseded                                    *)
(* History, kept for the properties:                                       *)
(*   log      : the stage events of the job's current                      *)
(*              refresh_company_ai_data call                               *)
(*   outcome  : per job and company, how the company's refresh ended in    *)
(*              the job's current fleet cycle                              *)
(*   fetched  : the companies the job's current fleet cycle fetched        *)
(*   refreshed: the companies whose customer_summary a stage has committed *)
(*   snap     : per company, the derived rows its last full refresh left,  *)
(*              while no later refresh of it has failed                    *)
(* The invoice-aging pipeline (routes/dashboard.py, refresh_dashboard):    *)
(*   payment_references : the payment allocations of the Ledger Store      *)
(*   rd       : per request, its position in refresh_dashboard, the        *)
(*              company it was called for, the number of its statements    *)
(*              that have run and what its last statement wrote            *)
(* The web service (main.py):                                              *)
(*   web      : whether DATABASE_URL is set, whether the application       *)
(*              serves, and the request in progress with the results of    *)
(*              its calls                                                  *)
(***************************************************************************)
VARIABLES companies, ledgers, vouchers, payment_references,
          customer_summary, business_overview, dashboard_metrics,
          now, slow, pc, queue, cur, runs, tx,
          log, outcome, fetched, refreshed, snap, rd, web

store == <<companies, ledgers, vouchers, payment_references>>

tables == <<customer_summary, business_overview, dashboard_metrics>>

vars == <<companies, ledgers, vouchers, payment_references, customer_summary,
          business_overview, dashboard_metrics, now, slow, pc, queue, cur, runs,
          tx, log, outcome, fetched, refreshed, snap, rd, web>>

Tenants == {"A", "B", "C"}

\* the two jobs start_scheduler registers
Jobs == {"startup", "interval"}

NoCompany == "none"

\* the calls of POST /api/admin/refresh-dashboard/{company_guid} observed
Requests == {"first", "second"}

NoRequest == [pc |-> "idle", company |-> NoCompany, done |-> 0, wrote |-> Null]

\* the data operations of utils/database.py
DataOps == {"get_vendors", "get_vendor_scores", "get_transactions",
            "get_outstanding_aging"}

\* a call that has not been made
NotCalled == [kind |-> "none"]

\* the service before start-up
NoService ==
    [ db_url |-> TRUE, up |-> FALSE, pc |-> "idle", endpoint |-> "none",
      data |-> [op \in DataOps |-> NotCalled], outcome |-> "none",
      text |-> NotCalled, reply |-> NotCalled, refresh |-> NotCalled ]

(***************************************************************************)
(* Dates and times.                                                        *)
(***************************************************************************)
\* CURRENT_DATE at clock tick t
CurrentDate(t) == t \div TicksPerDay

\* DATE_TRUNC('year', d)
DateTruncYear(d) == d - (d % DaysPerYear)

(***************************************************************************)
(* Currency formatting.  The text  '₹' || ROUND(x / 10^k, dp) || suffix    *)
(* is the record of its parts: digits is the rounded quotient in units of  *)
(* 10^-dp.  ROUND on numeric rounds half away from zero.                   *)
(***************************************************************************)
\* n / d rounded to an integer, for the even divisors used below
RoundHalfAway(n, d) ==
    IF n >= 0 THEN (n + d \div 2) \div d
    ELSE -((-n + d \div 2) \div d)

Crore == 10000000

Lakh == 100000

Thousand == 1000

Money(digits, dp, suffix) ==
    [sym |-> "INR", digits |-> digits, dp |-> dp, suffix |-> suffix]

\* lines 186-205: banded on ABS(x), no K band
FormatOutstanding(x) ==
    IF x = NaN THEN Money(NaN, 2, " Cr")
    ELSE IF Abs(x) >= Crore THEN Money(RoundHalfAway(x * 100, Crore), 2, " Cr")
    ELSE IF Abs(x) >= Lakh THEN Money(RoundHalfAway(x * 100, Lakh), 2, " L")
    ELSE Money(x, 0, "")

\* a mutant of FormatSales: the bands of outstanding_formatted, without K
FormatSalesNoK(x) ==
    IF x = NaN THEN Money(NaN, 2, " Cr")
    ELSE IF x >= Crore THEN Money(RoundHalfAway(x * 100, Crore), 2, " Cr")
    ELSE IF x >= Lakh THEN Money(RoundHalfAway(x * 100, Lakh), 2, " L")
    ELSE Money(x, 0, "")

\* lines 255-261: banded on sales_value, with a K band
FormatSales(x) ==
    IF x = NaN THEN Money(NaN, 2, " Cr")
    ELSE IF x >= Crore THEN Money(RoundHalfAway(x * 100, Crore), 2, " Cr")
    ELSE IF x >= Lakh THEN Money(RoundHalfAway(x * 100, Lakh), 2, " L")
    ELSE IF x >= Thousand THEN Money(RoundHalfAway(x * 10, Thousand), 1, " K")
    ELSE Money(x, 0, "")

\* lines 316-349: the three strings of business_overview; the sum is NULL
\* when the company has no customer_summary row
FormatTotal(x) ==
    IF x = NaN THEN Money(NaN, 2, " Cr")
    ELSE IF x >= Crore THEN Money(RoundHalfAway(x * 100, Crore), 2, " Cr")
    ELSE IF x >= Lakh THEN Money(RoundHalfAway(x * 100, Lakh), 2, " L")
    ELSE Money(x, 0, "")

(***************************************************************************)
(* The SELECT of the INSERT INTO ai.customer_summary, column by column.    *)
(***************************************************************************)
\* the vouchers one of the correlated subqueries sums or counts
VouchersOf(l, labels) ==
    { v \in vouchers : /\ v.party_ledger_id = l.id
                       /\ v.voucher_type \in labels
                       /\ v.is_cancelled = FALSE }

SumAmount(S) == SumOver([v \in S |-> v.total_amount])

OpeningBalance(l) == Coalesce(l.opening_balance, 0)

SalesValue(l) == SumAmount(VouchersOf(l, SalesLabels))

SalesCount(l) == Cardinality(VouchersOf(l, SalesLabels))

ReceiptsValue(l) == SumAmount(VouchersOf(l, ReceiptLabels))

ReceiptsCount(l) == Cardinality(VouchersOf(l, ReceiptLabels))

\* the mutant of OutstandingAmount: the shorter label lists
OutstandingAmountShort(l) ==
    Balance(Coalesce(l.opening_balance, 0),
            SumAmount(VouchersOf(l, SalesLabelsShort)),
            SumAmount(VouchersOf(l, ReceiptLabelsShort)))

\* lines 136-150
OutstandingAmount(l) ==
    Balance(Coalesce(l.opening_balance, 0),
            SumAmount(VouchersOf(l, SalesLabels)),
            SumAmount(VouchersOf(l, ReceiptLabels)))

\* lines 151-165
CurrentBalance(l) ==
    Balance(Coalesce(l.opening_balance, 0),
            SumAmount(VouchersOf(l, SalesLabels)),
            SumAmount(VouchersOf(l, ReceiptLabels)))

\* lines 166-183: the quotient SUM / COUNT, kept exact as the pair
\* <<SUM, COUNT>>; 0 is <<0, 1>>
AverageOrderValue(l) ==
    IF Cardinality(VouchersOf(l, SalesLabelsShort)) > 0
    THEN << SumAmount(VouchersOf(l, SalesLabelsShort)),
            Cardinality(VouchersOf(l, SalesLabelsShort)) >>
    ELSE <<0, 1>>

\* the amount lines 187-214 recompute for the text and the status
ShortOutstanding(l) ==
    Balance(Coalesce(l.opening_balance, 0),
            SumAmount(VouchersOf(l, SalesLabelsShort)),
            SumAmount(VouchersOf(l, ReceiptLabelsShort)))

OutstandingFormatted(l) == FormatOutstanding(ShortOutstanding(l))

BalanceStatus(l) ==
    IF ShortOutstanding(l) > 0 THEN "OWES_MONEY"
    ELSE IF ShortOutstanding(l) < 0 THEN "HAS_ADVANCE"
    ELSE "SETTLED"

\* the mutant of CustomerFilter: the name compared without LOWER()
CustomerFilterNoLower(l, c) ==
    /\ l.company_guid = c
    /\ l.parent_group = "Sundry Debtors"
    /\ l.active = TRUE
    /\ l.name # NullName
    /\ l.name # <<>>
    /\ l.name \notin ExcludedNames

\* lines 218-224, the WHERE of the SELECT
CustomerFilter(l, c) ==
    /\ l.company_guid = c
    /\ l.parent_group = "Sundry Debtors"
    /\ l.active = TRUE
    /\ l.name # NullName
    /\ l.name # <<>>
    /\ Lower(l.name) \notin ExcludedNames

\* the row the SELECT yields for ledger l; rid names the transaction that
\* inserts it (the identity of the stored row, not a column)
SummaryRow(l, c, ps, pe, rid) ==
    [ rid                   |-> rid,
      company_guid          |-> c,
      period_start          |-> ps,
      period_end            |-> pe,
      customer_name         |-> l.name,
      customer_guid         |-> l.guid,
      opening_balance       |-> OpeningBalance(l),
      sales_value           |-> SalesValue(l),
      sales_count           |-> SalesCount(l),
      receipts_value        |-> ReceiptsValue(l),
      receipts_count        |-> ReceiptsCount(l),
      outstanding_amount    |-> OutstandingAmount(l),
      current_balance       |-> CurrentBalance(l),
      average_order_value   |-> AverageOrderValue(l),
      sales_rank            |-> 0,
      outstanding_rank      |-> 0,
      outstanding_formatted |-> OutstandingFormatted(l),
      sales_formatted       |-> Money(0, 0, ""),
      balance_status        |-> BalanceStatus(l) ]

InsertedRows(c, ps, pe, rid) ==
    { SummaryRow(l, c, ps, pe, rid) : l \in { x \in ledgers : CustomerFilter(x, c) } }

\* lines 51-69: the observation period of company c at clock tick t
CompanyDates(c) == { v.date : v \in { x \in vouchers : x.company_guid = c } }

PeriodStart(c, t) ==
    IF CompanyDates(c) # {} THEN Min(CompanyDates(c))
    ELSE DateTruncYear(CurrentDate(t))

PeriodEnd(c, t) ==
    IF CompanyDates(c) # {} THEN Max(CompanyDates(c))
    ELSE CurrentDate(t)

(***************************************************************************)
(* Ranks (lines 231-250).  ROW_NUMBER() numbers the rows 1..N in an order  *)
(* that agrees with the sort key; rows that tie on the key come in an      *)
(* order the query does not fix, so every such numbering is possible.      *)
(***************************************************************************)
\* a mutant of RowNumbers: the rows numbered in ascending order of the key
RowNumbersAscending(V, key) ==
    { f \in [V -> 1..Cardinality(V)] :
        /\ \A a, b \in V : a # b => f[a] # f[b]
        /\ \A a, b \in V : key[a] < key[b] => f[a] < f[b] }

RowNumbers(V, key) ==
    { f \in [V -> 1..Cardinality(V)] :
        /\ \A a, b \in V : a # b => f[a] # f[b]
        /\ \A a, b \in V : key[a] > key[b] => f[a] < f[b] }

SalesKey(r) == r.sales_value

OutstandingKey(r) == r.outstanding_amount

\* UPDATE ... FROM ranked r WHERE cs.customer_guid = r.customer_guid: the row
\* of `ranked` a row of customer_summary is joined with; when several rows
\* carry the customer_guid the UPDATE uses one of them, unspecified which
JoinedRows(V) ==
    { p \in [V -> V] : \A r \in V : p[r].customer_guid = r.customer_guid }

\* the results the ranking UPDATE can leave for the visible rows V:
\* functions from each row to its new version
RankUpdates(V) ==
    { [r \in V |-> [r EXCEPT !.sales_rank = fs[p[r]],
                             !.outstanding_rank = fo[p[r]]]] :
        << fs, fo, p >> \in RowNumbers(V, [r \in V |-> SalesKey(r)])
                              \X RowNumbers(V, [r \in V |-> OutstandingKey(r)])
                              \X JoinedRows(V) }

\* lines 252-265
FormatUpdate(r) == [r EXCEPT !.sales_formatted = FormatSales(r.sales_value)]

(***************************************************************************)
(* refresh_business_overview: the SET list of the UPDATE, computed from    *)
(* the customer_summary rows C of the company.                             *)
(***************************************************************************)
Receivable(r) == IF r.outstanding_amount > 0 THEN r.outstanding_amount ELSE 0

Advance(r) == IF r.outstanding_amount < 0 THEN r.outstanding_amount ELSE 0

\* a mutant of TotalReceivables: one signed total
TotalReceivablesNetted(C) == SumOver([r \in C |-> OutstandingKey(r)])

\* lines 289-294
TotalReceivables(C) ==
    SumOver([r \in { x \in C : x.outstanding_amount > 0 }
                |-> OutstandingKey(r)])

\* lines 295-300
TotalAdvances(C) ==
    Abs(SumOver([r \in { x \in C : x.outstanding_amount < 0 }
                    |-> OutstandingKey(r)]))

\* lines 301-305
TotalCustomers(C) ==
    Cardinality({ r.customer_name : r \in { x \in C : x.customer_name # NullName } })

\* lines 306-315
TotalSales(C) == SumOver([r \in C |-> SalesKey(r)])

TotalReceipts(C) == SumOver([r \in C |-> r.receipts_value])

\* lines 316-325: no COALESCE, NULL when the company has no row
TotalSalesFormatted(C) ==
    IF C = {} THEN Null ELSE Some(FormatTotal(TotalSales(C)))

\* lines 326-337
TotalReceivablesFormatted(C) ==
    Some(FormatTotal(SumOver([r \in C |-> Receivable(r)])))

\* lines 338-349
TotalAdvancesFormatted(C) ==
    Some(FormatTotal(Abs(SumOver([r \in C |-> Advance(r)]))))

\* a mutant of OverviewUpdate: the sales total is added to the stored one
OverviewUpdateAccumulating(bo, C) ==
    [bo EXCEPT !.total_receivables = TotalReceivables(C),
               !.total_advances    = TotalAdvances(C),
               !.total_customers   = TotalCustomers(C),
               !.total_sales       = bo.total_sales + TotalSales(C),
               !.total_receipts    = TotalReceipts(C)]

\* lines 285-353: the SET list of the UPDATE
OverviewUpdate(bo, C) ==
    [bo EXCEPT !.total_receivables           = TotalReceivables(C),
               !.total_advances              = TotalAdvances(C),
               !.total_customers             = TotalCustomers(C),
               !.total_sales                 = TotalSales(C),
               !.total_receipts              = TotalReceipts(C),
               !.total_sales_formatted       = TotalSalesFormatted(C),
               !.total_receivables_formatted = TotalReceivablesFormatted(C),
               !.total_advances_formatted    = TotalAdvancesFormatted(C)]

(***************************************************************************)
(* refresh_dashboard_metrics: the two UPDATEs, from the business_overview  *)
(* rows B of the company at clock tick t.                                  *)
(***************************************************************************)
\* lines 375-388
MetricsUpdate(dm, B, t) ==
    [dm EXCEPT !.total_receivable = Some(SumOver([b \in B |-> b.total_receivables])),
               !.customer_count   = Some(SumOver([b \in B |-> b.total_customers])),
               !.calculated_at    = t]

\* lines 393-401
MetricsSanitize(dm) ==
    IF dm.total_receivable = Null \/ dm.total_receivable = Some(NaN)
    THEN [dm EXCEPT !.total_receivable = Some(0)]
    ELSE dm

(***************************************************************************)
(* Transactions.  A stage runs in one READ COMMITTED transaction: its      *)
(* statements see the committed rows and the transaction's own changes; a  *)
(* row it deleted or updated stays locked until it ends; commit publishes  *)
(* its changes at once and rollback drops them.                            *)
(***************************************************************************)
NoTx == [del |-> {}, new |-> {}, ps |-> 0, pe |-> 0, wait |-> {}, undone |-> {}]

\* the rows of `table` a statement of job j sees
Visible(j, table) == (table \ tx[j].del) \cup tx[j].new

\* the committed rows other open transactions hold locked
LockedByOthers(j) == UNION { tx[k].del : k \in Jobs \ {j} }

\* a mutant of Committed: the deletions are published without the new rows
CommittedDeletesOnly(j, table) == table \ tx[j].del

\* the table after job j's transaction commits
Committed(j, table) == (table \ tx[j].del) \cup tx[j].new

\* a mutant of RolledBack: the rows the transaction deleted stay deleted
RolledBackDeletesKept(j, table) == table \ tx[j].del

\* the table after job j's transaction is rolled back: leaving the block
\* async with conn.transaction() by an exception drops every change
RolledBack(j, table) == table

OfCompany(rows, c) == { r \in rows : r.company_guid = c }

(***************************************************************************)
(* Control.                                                                *)
(***************************************************************************)
CsPcs == {"cs_begin", "cs_delete", "cs_wait", "cs_insert", "cs_rank",
          "cs_format", "cs_commit"}

BoPcs == {"bo_update", "bo_commit"}

DmPcs == {"dm_update", "dm_sanitize", "dm_commit"}

StagePcs == CsPcs \cup BoPcs \cup DmPcs

StageOf(p) == IF p \in CsPcs THEN "cs" ELSE IF p \in BoPcs THEN "bo" ELSE "dm"

\* a mutant of AfterFailure: the error is swallowed and the next stage runs
AfterFailureContinue(stage) ==
    IF stage = "cs" THEN "bo_update"
    ELSE IF stage = "bo" THEN "dm_update"
    ELSE "loop"

\* refresh_company_ai_data, lines 426-433: the stages are awaited in turn
\* inside one try; the except logs and re-raises, so control leaves the
\* function for the loop of refresh_all_companies
AfterFailure(stage) == "loop"

\* a mutant of AfterCompanyFailure: the error ends the fleet cycle
AfterCompanyFailureStop(q) == <<>>

\* refresh_all_companies, lines 453-461: the except inside the for loop logs
\* the error; the loop goes on with the companies left
AfterCompanyFailure(q) == q

\* the date trigger fires once, the interval trigger every 5 minutes
RunLimit(j) == IF j = "startup" THEN 1 ELSE MaxRuns

Resting == {"idle", "done", "aborted"}

\* a mutant of ActiveCompanies: the WHERE clause left out
EveryCompany == Tenants

\* lines 445-447: the rows of SELECT company_guid FROM companies WHERE
\* active = TRUE
ActiveCompanies == { c \in Tenants : companies[c] = TRUE }

\* the orders in which SELECT company_guid FROM companies WHERE active = TRUE
\* can return the rows (no ORDER BY)
FetchOrders ==
    { q \in [1..Cardinality(ActiveCompanies) -> ActiveCompanies] :
        \A i, k \in DOMAIN q : i # k => q[i] # q[k] }

\* a trigger of the scheduler is due for job j: the date trigger at once,
\* the interval trigger after it; a run of the other job may still be going
\* on only if a fleet cycle can take longer than the interval
Due(j) ==
    /\ pc[j] \in Resting
    /\ runs[j] < RunLimit(j)
    /\ j = "interval" => runs["startup"] >= 1
    /\ slow \/ \A k \in Jobs \ {j} : pc[k] \in Resting

\* the derived rows of company c, as a reader sees them
Derived(c) ==
    [ summary  |-> OfCompany(customer_summary, c),
      overview |-> OfCompany(business_overview, c),
      metrics  |-> OfCompany(dashboard_metrics, c) ]

\* refresh_all_companies, lines 440-451: the pool is opened and the active
\* companies are fetched
FleetStart(j) ==
    /\ Due(j)
    /\ \E q \in FetchOrders : /\ queue' = [queue EXCEPT ![j] = q]
                              /\ fetched' = [fetched EXCEPT ![j] = q]
    /\ pc' = [pc EXCEPT ![j] = "loop"]
    /\ runs' = [runs EXCEPT ![j] = @ + 1]
    /\ cur' = [cur EXCEPT ![j] = NoCompany]
    /\ outcome' = [outcome EXCEPT ![j] = [c \in Tenants |-> "none"]]
    /\ log' = [log EXCEPT ![j] = <<>>]
    /\ UNCHANGED <<store, rd, web, tables, now, slow, tx, refreshed, snap>>

\* the pool or the fetch raises: nothing catches it, the run ends
FleetStartFails(j) ==
    /\ Due(j)
    /\ pc' = [pc EXCEPT ![j] = "aborted"]
    /\ runs' = [runs EXCEPT ![j] = @ + 1]
    /\ cur' = [cur EXCEPT ![j] = NoCompany]
    /\ queue' = [queue EXCEPT ![j] = <<>>]
    /\ fetched' = [fetched EXCEPT ![j] = <<>>]
    /\ outcome' = [outcome EXCEPT ![j] = [c \in Tenants |-> "none"]]
    /\ log' = [log EXCEPT ![j] = <<>>]
    /\ UNCHANGED <<store, rd, web, tables, now, slow, tx, refreshed, snap>>

\* lines 453-455: the loop takes the next company and calls
\* refresh_company_ai_data
NextCompany(j) ==
    /\ pc[j] = "loop"
    /\ queue[j] # <<>>
    /\ cur' = [cur EXCEPT ![j] = Head(queue[j])]
    /\ queue' = [queue EXCEPT ![j] = Tail(@)]
    /\ pc' = [pc EXCEPT ![j] = "cs_begin"]
    /\ log' = [log EXCEPT ![j] = <<>>]
    /\ UNCHANGED <<store, rd, web, tables, now, slow, runs, tx, outcome, fetched,
                   refreshed, snap>>

\* lines 463-465: the loop is over
FleetEnd(j) ==
    /\ pc[j] = "loop"
    /\ queue[j] = <<>>
    /\ pc' = [pc EXCEPT ![j] = "done"]
    /\ UNCHANGED <<store, rd, web, tables, now, slow, queue, cur, runs, tx, log, outcome,
                   fetched, refreshed, snap>>

\* a statement of the running stage (or opening its pool) raises: the
\* transaction is rolled back, the stage logs and re-raises
StageFails(j) ==
    /\ pc[j] \in StagePcs
    /\ customer_summary' = RolledBack(j, customer_summary)
    /\ business_overview' = RolledBack(j, business_overview)
    /\ dashboard_metrics' = RolledBack(j, dashboard_metrics)
    /\ tx' = [tx EXCEPT ![j] = [NoTx EXCEPT !.undone = tx[j].del]]
    /\ log' = [log EXCEPT ![j] = Append(@, StageOf(pc[j]) \o "_fail")]
    /\ snap' = [snap EXCEPT ![cur[j]] = Null]
    /\ LET p == AfterFailure(StageOf(pc[j]))
       IN  IF p = "loop"
           THEN /\ pc' = [pc EXCEPT ![j] = "loop"]
                /\ outcome' = [outcome EXCEPT ![j][cur[j]] = "failed"]
                /\ queue' = [queue EXCEPT ![j] = AfterCompanyFailure(@)]
           ELSE /\ pc' = [pc EXCEPT ![j] = p]
                /\ UNCHANGED <<outcome, queue>>
    /\ UNCHANGED <<store, rd, web, now, slow, cur, runs, fetched, refreshed>>

(***************************************************************************)
(* refresh_customer_summary.                                               *)
(***************************************************************************)
\* lines 49-69: the transaction begins and the period is read
CSBegin(j) ==
    /\ pc[j] = "cs_begin"
    /\ \E t \in now..MaxClock :
         /\ now' = t
         /\ tx' = [tx EXCEPT ![j] = [NoTx EXCEPT !.ps = PeriodStart(cur[j], t),
                                                 !.pe = PeriodEnd(cur[j], t)]]
    /\ log' = [log EXCEPT ![j] = Append(@, "cs_start")]
    /\ pc' = [pc EXCEPT ![j] = "cs_delete"]
    /\ UNCHANGED <<store, rd, web, tables, slow, queue, cur, runs, outcome, fetched,
                   refreshed, snap>>

\* lines 71-77: DELETE.  Its targets are the company's rows committed when
\* the statement starts; if another transaction holds one of them locked the
\* statement waits for that transaction to end
CSDelete(j) ==
    /\ pc[j] = "cs_delete"
    /\ LET targets == OfCompany(Visible(j, customer_summary), cur[j])
       IN  IF targets \cap LockedByOthers(j) = {}
           THEN /\ tx' = [tx EXCEPT ![j].del = targets]
                /\ pc' = [pc EXCEPT ![j] = "cs_insert"]
           ELSE /\ tx' = [tx EXCEPT ![j].wait = targets]
                /\ pc' = [pc EXCEPT ![j] = "cs_wait"]
    /\ UNCHANGED <<store, rd, web, tables, now, slow, queue, cur, runs, log, outcome,
                   fetched, refreshed, snap>>

\* the waiting DELETE goes on: it deletes the targets that still exist (in
\* their current version) and never sees rows committed after it started
CSDeleteResumes(j) ==
    /\ pc[j] = "cs_wait"
    /\ LET live == { r \in customer_summary :
                       \E w \in tx[j].wait : /\ w.rid = r.rid
                                             /\ w.customer_guid = r.customer_guid
                                             /\ w.company_guid = r.company_guid }
       IN  /\ live \cap LockedByOthers(j) = {}
           /\ tx[j].wait \cap LockedByOthers(j) = {}
           /\ tx' = [tx EXCEPT ![j].del = live, ![j].wait = {}]
    /\ pc' = [pc EXCEPT ![j] = "cs_insert"]
    /\ UNCHANGED <<store, rd, web, tables, now, slow, queue, cur, runs, log, outcome,
                   fetched, refreshed, snap>>

\* lines 79-229: INSERT ... SELECT
CSInsert(j) ==
    /\ pc[j] = "cs_insert"
    /\ tx' = [tx EXCEPT ![j].new =
                @ \cup InsertedRows(cur[j], tx[j].ps, tx[j].pe, <<j, runs[j]>>)]
    /\ pc' = [pc EXCEPT ![j] = "cs_rank"]
    /\ UNCHANGED <<store, rd, web, tables, now, slow, queue, cur, runs, log, outcome,
                   fetched, refreshed, snap>>

\* lines 231-250: the ranking UPDATE, on every row of the company it sees
CSRank(j) ==
    /\ pc[j] = "cs_rank"
    /\ LET V == OfCompany(Visible(j, customer_summary), cur[j])
       IN  /\ V \cap LockedByOthers(j) = {}
           /\ \E u \in RankUpdates(V) :
                tx' = [tx EXCEPT ![j].del = @ \cup (V \cap customer_summary),
                                 ![j].new = { u[r] : r \in V }]
    /\ pc' = [pc EXCEPT ![j] = "cs_format"]
    /\ UNCHANGED <<store, rd, web, tables, now, slow, queue, cur, runs, log, outcome,
                   fetched, refreshed, snap>>

\* lines 252-265: the sales_formatted UPDATE
CSFormat(j) ==
    /\ pc[j] = "cs_format"
    /\ LET V == OfCompany(Visible(j, customer_summary), cur[j])
       IN  /\ V \cap LockedByOthers(j) = {}
           /\ tx' = [tx EXCEPT ![j].del = @ \cup (V \cap customer_summary),
                               ![j].new = { FormatUpdate(r) : r \in V }]
    /\ pc' = [pc EXCEPT ![j] = "cs_commit"]
    /\ UNCHANGED <<store, rd, web, tables, now, slow, queue, cur, runs, log, outcome,
                   fetched, refreshed, snap>>

\* the transaction commits and refresh_customer_summary returns
CSCommit(j) ==
    /\ pc[j] = "cs_commit"
    /\ customer_summary' = Committed(j, customer_summary)
    /\ tx' = [tx EXCEPT ![j] = NoTx]
    /\ log' = [log EXCEPT ![j] = Append(@, "cs_commit")]
    /\ refreshed' = refreshed \cup {cur[j]}
    /\ pc' = [pc EXCEPT ![j] = "bo_update"]
    /\ UNCHANGED <<store, rd, web, business_overview, dashboard_metrics, now, slow, queue,
                   cur, runs, outcome, fetched, snap>>

(***************************************************************************)
(* refresh_business_overview.                                              *)
(***************************************************************************)
\* lines 283-353: the UPDATE of the company's business_overview rows, from
\* the committed customer_summary
BOUpdate(j) ==
    /\ pc[j] = "bo_update"
    /\ LET B == OfCompany(Visible(j, business_overview), cur[j])
           C == OfCompany(customer_summary, cur[j])
       IN  /\ B \cap LockedByOthers(j) = {}
           /\ tx' = [tx EXCEPT ![j] = [NoTx EXCEPT
                                         !.del = B,
                                         !.new = { OverviewUpdate(b, C) : b \in B }]]
    /\ log' = [log EXCEPT ![j] = Append(@, "bo_start")]
    /\ pc' = [pc EXCEPT ![j] = "bo_commit"]
    /\ UNCHANGED <<store, rd, web, tables, now, slow, queue, cur, runs, outcome, fetched,
                   refreshed, snap>>

BOCommit(j) ==
    /\ pc[j] = "bo_commit"
    /\ business_overview' = Committed(j, business_overview)
    /\ tx' = [tx EXCEPT ![j] = NoTx]
    /\ log' = [log EXCEPT ![j] = Append(@, "bo_commit")]
    /\ pc' = [pc EXCEPT ![j] = "dm_update"]
    /\ UNCHANGED <<store, rd, web, customer_summary, dashboard_metrics, now, slow, queue,
                   cur, runs, outcome, fetched, refreshed, snap>>

(***************************************************************************)
(* refresh_dashboard_metrics.                                              *)
(***************************************************************************)
\* lines 371-391: the transaction begins (NOW() is its start time) and the
\* first UPDATE runs on the company's dashboard_metrics rows
DMUpdate(j) ==
    /\ pc[j] = "dm_update"
    /\ LET D == OfCompany(Visible(j, dashboard_metrics), cur[j])
           B == OfCompany(business_overview, cur[j])
       IN  /\ D \cap LockedByOthers(j) = {}
           /\ \E t \in now..MaxClock :
                /\ now' = t
                /\ tx' = [tx EXCEPT ![j] = [NoTx EXCEPT
                                   !.del = D,
                                   !.new = { MetricsUpdate(d, B, t) : d \in D }]]
    /\ log' = [log EXCEPT ![j] = Append(@, "dm_start")]
    /\ pc' = [pc EXCEPT ![j] = "dm_sanitize"]
    /\ UNCHANGED <<store, rd, web, tables, slow, queue, cur, runs, outcome, fetched,
                   refreshed, snap>>

\* lines 393-401: the second UPDATE
DMSanitize(j) ==
    /\ pc[j] = "dm_sanitize"
    /\ LET D == OfCompany(Visible(j, dashboard_metrics), cur[j])
       IN  /\ D \cap LockedByOthers(j) = {}
           /\ tx' = [tx EXCEPT ![j].del = @ \cup (D \cap dashboard_metrics),
                               ![j].new = { MetricsSanitize(d) : d \in D }]
    /\ pc' = [pc EXCEPT ![j] = "dm_commit"]
    /\ UNCHANGED <<store, rd, web, tables, now, slow, queue, cur, runs, log, outcome,
                   fetched, refreshed, snap>>

\* the transaction commits, refresh_dashboard_metrics and then
\* refresh_company_ai_data return
DMCommit(j) ==
    /\ pc[j] = "dm_commit"
    /\ dashboard_metrics' = Committed(j, dashboard_metrics)
    /\ tx' = [tx EXCEPT ![j] = NoTx]
    /\ log' = [log EXCEPT ![j] = Append(@, "dm_commit")]
    /\ outcome' = [outcome EXCEPT ![j][cur[j]] = "ok"]
    /\ snap' = IF slow THEN snap
               ELSE [snap EXCEPT ![cur[j]] =
                       Some([ summary  |-> OfCompany(customer_summary, cur[j]),
                              overview |-> OfCompany(business_overview, cur[j]),
                              metrics  |-> OfCompany(dashboard_metrics', cur[j]) ])]
    /\ pc' = [pc EXCEPT ![j] = "loop"]
    /\ UNCHANGED <<store, rd, web, customer_summary, business_overview, now, slow, queue,
                   cur, runs, fetched, refreshed>>

(***************************************************************************)
Ledger(id, c, name, group, act, opening) ==
    [ id |-> id, guid |-> id, company_guid |-> c, name |-> name,
      parent_group |-> group, active |-> act, opening_balance |-> opening ]

Voucher(id, c, party, type, amount, cancelled, date) ==
    [ id |-> id, company_guid |-> c, party_ledger_id |-> party,
      voucher_type |-> type, total_amount |-> amount,
      is_cancelled |-> cancelled, date |-> date ]

Acme == <<"A","c","m","e">>

Zed == <<"Z","e","d">>

Beta == <<"B","e","t","a">>

Cash == <<"C","a","s","h">>

\* a row a previous cycle left in ai.customer_summary
StaleSummary(c, guid, name, out) ==
    [ rid                   |-> <<"init", 0>>,
      company_guid          |-> c,
      period_start          |-> 0,
      period_end            |-> 0,
      customer_name         |-> name,
      customer_guid         |-> guid,
      opening_balance       |-> 0,
      sales_value           |-> out,
      sales_count           |-> 1,
      receipts_value        |-> 0,
      receipts_count        |-> 0,
      outstanding_amount    |-> out,
      current_balance       |-> out,
      average_order_value   |-> <<out, 1>>,
      sales_rank            |-> 1,
      outstanding_rank      |-> 1,
      outstanding_formatted |-> FormatOutstanding(out),
      sales_formatted       |-> FormatSales(out),
      balance_status        |-> "OWES_MONEY" ]

StaleOverview(c, recv) ==
    [ company_guid                |-> c,
      total_receivables           |-> recv,
      total_advances              |-> 0,
      total_customers             |-> 1,
      total_sales                 |-> recv,
      total_receipts              |-> 0,
      total_sales_formatted       |-> Some(FormatTotal(recv)),
      total_receivables_formatted |-> Some(FormatTotal(recv)),
      total_advances_formatted    |-> Some(FormatTotal(0)) ]

StaleMetrics(c, date, recv) ==
    [ company_guid     |-> c,
      data_as_of_date  |-> date,
      total_receivable |-> recv,
      customer_count   |-> Some(1),
      calculated_at    |-> 0 ]

\* company A: a debtor owing 50, a debtor with an advance of 30 and a cash
\* account filed under Sundry Debtors; company B: two debtors with nothing
\* posted (they tie on every sort key); company C: one debtor
BaseLedgers ==
    { Ledger(1, "A", Acme, "Sundry Debtors", TRUE, Some(50)),
      Ledger(2, "A", Zed, "Sundry Debtors", TRUE, Null),
      Ledger(3, "A", Cash, "Sundry Debtors", TRUE, Some(10)),
      Ledger(4, "B", Beta, "Sundry Debtors", TRUE, Some(0)),
      Ledger(5, "C", Beta, "Sundry Debtors", TRUE, Some(5)),
      Ledger(6, "B", Zed, "Sundry Debtors", TRUE, Null) }

BaseVouchers ==
    { Voucher(1, "A", 2, "Receipt", 30, FALSE, 0),
      Voucher(2, "A", 1, "Sales Invoice", 20, FALSE, 1),
      Voucher(3, "A", 1, "Payment Received", 20, FALSE, 1) }

\* what earlier cycles may have left in the derived tables: nothing, or
\* stale rows (of an excluded account too, and a NULL total)
StaleSummaries ==
    { StaleSummary("A", 1, Acme, 7), StaleSummary("A", 3, Cash, 10),
      StaleSummary("B", 4, Beta, 7), StaleSummary("C", 5, Beta, 7) }

StaleOverviews ==
    { StaleOverview("A", 7), StaleOverview("B", 7), StaleOverview("C", 7) }

StaleMetricsRows ==
    { StaleMetrics("A", 0, Some(7)), StaleMetrics("A", 1, Null),
      StaleMetrics("B", 0, Some(7)), StaleMetrics("C", 0, Some(7)) }

Priors == { <<{}, {}, {}>>, <<StaleSummaries, StaleOverviews, StaleMetricsRows>> }

InitControl ==
    /\ now = 0
    /\ pc = [j \in Jobs |-> "idle"]
    /\ queue = [j \in Jobs |-> <<>>]
    /\ cur = [j \in Jobs |-> NoCompany]
    /\ runs = [j \in Jobs |-> 0]
    /\ tx = [j \in Jobs |-> NoTx]
    /\ log = [j \in Jobs |-> <<>>]
    /\ outcome = [j \in Jobs |-> [c \in Tenants |-> "none"]]
    /\ fetched = [j \in Jobs |-> <<>>]
    /\ refreshed = {}
    /\ snap = [c \in Tenants |-> Null]
    /\ rd = [q \in Requests |-> NoRequest]

InitPriors ==
    \E p \in Priors : /\ customer_summary = p[1]
                      /\ business_overview = p[2]
                      /\ dashboard_metrics = p[3]

\* fleet cycles shorter than the interval: companies A and B are refreshed,
\* by the startup run and then by the interval runs
InitSequential ==
    /\ companies = [c \in Tenants |-> c # "C"]
    /\ ledgers = BaseLedgers
    /\ vouchers = BaseVouchers
    /\ payment_references = {}
    /\ InitPriors
    /\ slow = FALSE
    /\ InitControl
    /\ web = NoService

\* fleet cycles that may outlast the interval: the refreshes of company A by
\* the two jobs may overlap
InitOverlap ==
    /\ companies = [c \in Tenants |-> c = "A"]
    /\ ledgers = BaseLedgers
    /\ vouchers = BaseVouchers
    /\ payment_references = {}
    /\ InitPriors
    /\ slow = TRUE
    /\ InitControl
    /\ web = NoService

Init == InitSequential \/ InitOverlap

JobStep(j) ==
    \/ FleetStart(j)
    \/ FleetStartFails(j)
    \/ NextCompany(j)
    \/ FleetEnd(j)
    \/ StageFails(j)
    \/ CSBegin(j)
    \/ CSDelete(j)
    \/ CSDeleteResumes(j)
    \/ CSInsert(j)
    \/ CSRank(j)
    \/ CSFormat(j)
    \/ CSCommit(j)
    \/ BOUpdate(j)
    \/ BOCommit(j)
    \/ DMUpdate(j)
    \/ DMSanitize(j)
    \/ DMCommit(j)

Next == \E j \in Jobs : JobStep(j)

Spec == Init /\ [][Next]_vars

(***************************************************************************)
(* The computations on their own: the startup run refreshes company A on a *)
(* Ledger Store drawn from the account and voucher values below.           *)
(***************************************************************************)
Bank == <<"B","A","N","K">>

PettyCash == <<"P","e","t","t","y"," ","C","a","s","h">>

CashInHand == <<"c","a","s","h"," ","i","n"," ","h","a","n","d">>

BankAccount == <<"B","a","n","k"," ","A","c","c","o","u","n","t">>

BankAccounts == <<"b","a","n","k"," ","A","C","C","O","U","N","T","S">>

Cashier == <<"C","a","s","h","i","e","r">>

NamePool == { Acme, Cash, Bank, PettyCash, CashInHand, BankAccount,
              BankAccounts, Cashier, <<>>, NullName }

GroupPool == {"Sundry Debtors", "Sundry Creditors"}

OpeningPool == { Null, Some(50), Some(-30) }

LabelPool == SalesLabels \cup ReceiptLabels \cup {"Journal"}

\* the vouchers that can be posted to the two accounts of company A: of 20
\* each to account 1, of 30 each to account 2
VoucherPool ==
    { Voucher(<<p, ty, x>>, "A", p, ty, IF p = 1 THEN 20 ELSE 30, x,
              IF x THEN 0 ELSE 1) :
        p \in {1, 2}, ty \in LabelPool, x \in BOOLEAN }

\* the sets of at most n vouchers
VoucherSets(n) ==
    LET RECURSIVE upto(_)
        upto(k) == IF k = 0 THEN { {} }
                   ELSE LET P == upto(k - 1)
                        IN  P \cup { S \cup {v} : S \in P, v \in VoucherPool }
    IN  upto(n)

\* every kind of account beside a plain debtor, on the base vouchers
InitAccounts ==
    /\ \E n \in NamePool, g \in GroupPool, a \in BOOLEAN, o \in OpeningPool :
         ledgers = { Ledger(1, "A", Acme, "Sundry Debtors", TRUE, Some(50)),
                     Ledger(2, "A", n, g, a, o) }
    /\ vouchers = BaseVouchers

\* every set of vouchers on two plain debtors
InitVouchers ==
    /\ ledgers = { Ledger(1, "A", Acme, "Sundry Debtors", TRUE, Some(50)),
                   Ledger(2, "A", Zed, "Sundry Debtors", TRUE, Null) }
    /\ vouchers \in VoucherSets(MaxVouchers)

\* sales of every magnitude: one debtor with one sale, and a second debtor
\* with a smaller one
AmountPool ==
    { 0, 500, 999, 1000, 1249, 4500, 4550, 99949, 99999, 100000, 250000,
      254999, 9999999, 10000000, 12000000, 12345678 }

InitAmounts ==
    /\ ledgers = { Ledger(1, "A", Acme, "Sundry Debtors", TRUE, Some(50)),
                   Ledger(2, "A", Zed, "Sundry Debtors", TRUE, Null) }
    /\ \E a \in AmountPool :
         vouchers = { Voucher(1, "A", 1, "Sales", a, FALSE, 0),
                      Voucher(2, "A", 2, "Invoice", 500, FALSE, 1) }

InitRows ==
    /\ companies = [c \in Tenants |-> c = "A"]
    /\ payment_references = {}
    /\ InitAccounts \/ InitVouchers \/ InitAmounts
    /\ InitPriors
    /\ slow = FALSE
    /\ InitControl
    /\ web = NoService

\* one job alone never waits for a lock
NextRows ==
    \/ FleetStart("startup")
    \/ FleetStartFails("startup")
    \/ NextCompany("startup")
    \/ FleetEnd("startup")
    \/ StageFails("startup")
    \/ CSBegin("startup")
    \/ CSDelete("startup")
    \/ CSInsert("startup")
    \/ CSRank("startup")
    \/ CSFormat("startup")
    \/ CSCommit("startup")
    \/ BOUpdate("startup")
    \/ BOCommit("startup")
    \/ DMUpdate("startup")
    \/ DMSanitize("startup")
    \/ DMCommit("startup")

SpecRows == InitRows /\ [][NextRows]_vars

\* one fleet cycle over the active companies A and B, with progress: the
\* event loop goes on with the job whenever it can take a step, since each
\* awaited statement returns or raises
FleetFairness == WF_vars(NextRows)

SpecFleet == InitSequential /\ [][NextRows]_vars /\ FleetFairness

\* a Ledger Store with a balance that is not a number: the opening balance
\* of one debtor of company A is NaN
InitNaN ==
    /\ companies = [c \in Tenants |-> c = "A"]
    /\ \E o \in OpeningPool :
         ledgers = { Ledger(1, "A", Acme, "Sundry Debtors", TRUE, Some(NaN)),
                     Ledger(2, "A", Zed, "Sundry Debtors", TRUE, o) }
    /\ vouchers \in VoucherSets(1)
    /\ payment_references = {}
    /\ InitPriors
    /\ slow = FALSE
    /\ InitControl
    /\ web = NoService

SpecNaN == InitNaN /\ [][NextRows]_vars

(***************************************************************************)
(* The invoice-aging pipeline: POST /api/admin/refresh-dashboard (routes/  *)
(* dashboard.py, refresh_dashboard).  Its three statements run on one      *)
(* connection without a transaction block, so each commits on its own and  *)
(* the statements of two requests interleave.                              *)
(***************************************************************************)
\* lines 219-220: the vouchers the first UPDATE touches
InvoiceTypes == {"SALES", "Invoice"}

\* lines 196-198: the allocations summed for voucher v
ActiveAllocations(v) ==
    { p \in payment_references : p.invoice_voucher_id = v.id /\ p.is_active }

\* a mutant of AmountPaid: soft-deleted allocations counted too
AmountPaidAll(v) ==
    SumOver([p \in { x \in payment_references : x.invoice_voucher_id = v.id }
                |-> p.allocated_amount])

\* lines 194-198: COALESCE((SELECT SUM(pr.allocated_amount) ...), 0)
AmountPaid(v) ==
    SumOver([p \in ActiveAllocations(v) |-> p.allocated_amount])

\* a mutant of PaymentStatus: PAID only when more than the total is allocated
PaymentStatusStrict(v) ==
    IF v.is_cancelled THEN "CANCELLED"
    ELSE IF AmountPaid(v) > v.total_amount THEN "PAID"
    ELSE IF AmountPaid(v) > 0 THEN "PARTIAL"
    ELSE "UNPAID"

\* lines 204-217: the CASE, its branches in order
PaymentStatus(v) ==
    IF v.is_cancelled THEN "CANCELLED"
    ELSE IF AmountPaid(v) >= v.total_amount THEN "PAID"
    ELSE IF AmountPaid(v) > 0 THEN "PARTIAL"
    ELSE "UNPAID"

\* the days an invoice is past due on the day `today`
DaysSinceDue(v, today) == today - Coalesce(v.due_date, v.date)

\* a mutant of AgingBucket: the thresholds exclusive
AgingBucketExclusive(days) ==
    IF days < 30 THEN "0-30"
    ELSE IF days < 60 THEN "31-60"
    ELSE IF days < 90 THEN "61-90"
    ELSE "90+"

\* the bucket of an invoice `days` days past due
AgingBucket(days) ==
    IF days <= 30 THEN "0-30"
    ELSE IF days <= 60 THEN "31-60"
    ELSE IF days <= 90 THEN "61-90"
    ELSE "90+"

\* lines 192-218: the SET list, at clock tick t
PaymentUpdate(v, t) ==
    [v EXCEPT !.amount_paid         = Some(AmountPaid(v)),
              !.amount_outstanding  = Some(v.total_amount - AmountPaid(v)),
              !.payment_status      = PaymentStatus(v),
              !.payment_computed_at = Some(t)]

\* the aging columns of an invoice the pass writes, on the day `today`
AgingColumns(v, today) ==
    [v EXCEPT !.days_since_due = Some(DaysSinceDue(v, today)),
              !.aging_bucket   = AgingBucket(DaysSinceDue(v, today))]

\* lines 190-223: UPDATE vouchers; the aging columns of the rows it writes
\* are brought up to date with them
UpdateVouchers(c, t) ==
    { IF v.company_guid = c /\ v.voucher_type \in InvoiceTypes
      THEN AgingColumns(PaymentUpdate(v, t), CurrentDate(t))
      ELSE v : v \in vouchers }

\* lines 231-235: the vouchers whose earliest date gives days_overdue
OpenVouchers(l) ==
    { v \in vouchers : /\ v.party_ledger_id = l.id
                       /\ v.payment_status \in {"UNPAID", "PARTIAL"} }

\* a mutant of DaysOverdue: counted from the latest open invoice
DaysOverdueLatest(l, today) ==
    IF OpenVouchers(l) = {} THEN 0
    ELSE today - Max({ v.date : v \in OpenVouchers(l) })

\* lines 229-238
DaysOverdue(l, today) ==
    IF OpenVouchers(l) = {} THEN 0
    ELSE today - Min({ v.date : v \in OpenVouchers(l) })

\* a mutant of UpdateLedgers: the company left out of the WHERE clause
UpdateLedgersEveryCompany(c, t) ==
    { IF l.parent_group = "Sundry Debtors"
      THEN [l EXCEPT !.days_overdue = Some(DaysOverdue(l, CurrentDate(t))),
                     !.aging_computed_at = Some(t)]
      ELSE l : l \in ledgers }

\* lines 225-243: UPDATE ledgers
UpdateLedgers(c, t) ==
    { IF l.company_guid = c /\ l.parent_group = "Sundry Debtors"
      THEN [l EXCEPT !.days_overdue = Some(DaysOverdue(l, CurrentDate(t))),
                     !.aging_computed_at = Some(t)]
      ELSE l : l \in ledgers }

\* lines 256-259 and 291-294: the accounts the snapshot counts
Receivables(c) ==
    { l \in ledgers : /\ l.company_guid = c
                      /\ l.parent_group = "Sundry Debtors"
                      /\ l.current_balance # Null
                      /\ l.current_balance[1] > 0 }

\* lines 254-260
DashTotalReceivable(c) ==
    SumOver([l \in Receivables(c) |-> l.current_balance[1]])

\* lines 289-295
DashCustomerCount(c) == Cardinality(Receivables(c))

\* a mutant of ReceivableBucket: invoices of every payment status summed
ReceivableBucketAnyStatus(c, b) ==
    SumOver([v \in { x \in vouchers : /\ x.company_guid = c
                                      /\ x.aging_bucket = b }
                |-> Coalesce(v.amount_outstanding, 0)])

\* lines 261-288: one of the four bucket sums
ReceivableBucket(c, b) ==
    SumOver([v \in { x \in vouchers : /\ x.company_guid = c
                                      /\ x.aging_bucket = b
                                      /\ x.payment_status \in {"UNPAID", "PARTIAL"} }
                |-> Coalesce(v.amount_outstanding, 0)])

\* lines 247-297: the row the INSERT proposes at clock tick t
Snapshot(c, t) ==
    [ company_guid           |-> c,
      data_as_of_date        |-> CurrentDate(t),
      total_receivable       |-> Some(DashTotalReceivable(c)),
      receivable_0_30        |-> Some(ReceivableBucket(c, "0-30")),
      receivable_31_60       |-> Some(ReceivableBucket(c, "31-60")),
      receivable_61_90       |-> Some(ReceivableBucket(c, "61-90")),
      receivable_90_plus     |-> Some(ReceivableBucket(c, "90+")),
      customer_count         |-> Some(DashCustomerCount(c)),
      overdue_customer_count |-> Null,
      calculated_at          |-> t ]

SameKey(r, s) ==
    r.company_guid = s.company_guid /\ r.data_as_of_date = s.data_as_of_date

\* a mutant of Upsert: ON CONFLICT DO NOTHING
UpsertKeepingOld(rows, s) ==
    IF \E r \in rows : SameKey(r, s) THEN rows ELSE rows \cup {s}

\* lines 298-305: ON CONFLICT (company_guid, data_as_of_date) DO UPDATE SET
\* the seven columns listed
Upsert(rows, s) ==
    IF \E r \in rows : SameKey(r, s)
    THEN { IF SameKey(r, s)
           THEN [r EXCEPT !.total_receivable   = s.total_receivable,
                          !.receivable_0_30    = s.receivable_0_30,
                          !.receivable_31_60   = s.receivable_31_60,
                          !.receivable_61_90   = s.receivable_61_90,
                          !.receivable_90_plus = s.receivable_90_plus,
                          !.customer_count     = s.customer_count,
                          !.calculated_at      = s.calculated_at]
           ELSE r : r \in rows }
    ELSE rows \cup {s}

\* the request arrives with its path parameter
RDStart(q) ==
    /\ rd[q].pc = "idle"
    /\ \E c \in Tenants :
         rd' = [rd EXCEPT ![q] = [NoRequest EXCEPT !.pc = "vouchers",
                                                   !.company = c]]
    /\ UNCHANGED <<store, tables, now, slow, pc, queue, cur, runs, tx, log,
                   outcome, fetched, refreshed, snap, web>>

\* lines 190-223
RDVouchers(q) ==
    /\ rd[q].pc = "vouchers"
    /\ \E t \in now..MaxClock :
         /\ now' = t
         /\ vouchers' = UpdateVouchers(rd[q].company, t)
    /\ rd' = [rd EXCEPT ![q].pc = "ledgers", ![q].done = 1]
    /\ UNCHANGED <<companies, ledgers, payment_references, tables, slow, pc,
                   queue, cur, runs, tx, log, outcome, fetched, refreshed, snap,
                   web>>

\* lines 225-243
RDLedgers(q) ==
    /\ rd[q].pc = "ledgers"
    /\ \E t \in now..MaxClock :
         /\ now' = t
         /\ ledgers' = UpdateLedgers(rd[q].company, t)
    /\ rd' = [rd EXCEPT ![q].pc = "metrics", ![q].done = 2]
    /\ UNCHANGED <<companies, vouchers, payment_references, tables, slow, pc,
                   queue, cur, runs, tx, log, outcome, fetched, refreshed, snap,
                   web>>

\* lines 245-314: the upsert, then the success reply
RDMetrics(q) ==
    /\ rd[q].pc = "metrics"
    /\ \E t \in now..MaxClock :
         /\ now' = t
         /\ dashboard_metrics' =
                Upsert(dashboard_metrics, Snapshot(rd[q].company, t))
         /\ rd' = [rd EXCEPT ![q].pc = "done", ![q].done = 3,
                             ![q].wrote = Some(Snapshot(rd[q].company, t))]
    /\ UNCHANGED <<store, customer_summary, business_overview, slow, pc, queue,
                   cur, runs, tx, log, outcome, fetched, refreshed, snap, web>>

\* lines 186-189, 315-316: the pool or a statement raises; nothing catches
\* it, and the statements already run stay committed
RDFails(q) ==
    /\ rd[q].pc \in {"vouchers", "ledgers", "metrics"}
    /\ rd' = [rd EXCEPT ![q].pc = "failed"]
    /\ UNCHANGED <<store, tables, now, slow, pc, queue, cur, runs, tx, log,
                   outcome, fetched, refreshed, snap, web>>

DashLedger(id, c, name, group, act, balance) ==
    [ id |-> id, guid |-> id, company_guid |-> c, name |-> name,
      parent_group |-> group, active |-> act, opening_balance |-> Null,
      current_balance |-> balance, days_overdue |-> Null,
      aging_computed_at |-> Null ]

DashVoucher(id, c, party, type, amount, cancelled, date, due) ==
    [ id |-> id, company_guid |-> c, party_ledger_id |-> party,
      voucher_type |-> type, total_amount |-> amount,
      is_cancelled |-> cancelled, date |-> date, due_date |-> due,
      amount_paid |-> Null, amount_outstanding |-> Null,
      payment_status |-> "NULL", payment_computed_at |-> Null,
      days_since_due |-> Null, aging_bucket |-> "NULL" ]

Allocation(id, voucher, amount, act) ==
    [ id |-> id, invoice_voucher_id |-> voucher, allocated_amount |-> amount,
      is_active |-> act ]

\* a row an earlier call left in dashboard_metrics
DashStale(c, date) ==
    [ company_guid           |-> c,
      data_as_of_date        |-> date,
      total_receivable       |-> Some(7),
      receivable_0_30        |-> Some(7),
      receivable_31_60       |-> Null,
      receivable_61_90       |-> Some(7),
      receivable_90_plus     |-> Some(7),
      customer_count         |-> Some(9),
      overdue_customer_count |-> Some(4),
      calculated_at          |-> 0 ]

DashPriors == { {}, { DashStale("A", 0), DashStale("A", 1), DashStale("B", 0) } }

\* company A: a debtor owing 50 with an invoice of 100 and a sale under the
\* label the pass does not read; company B: a debtor owing 7 with an invoice
DashBaseLedgers ==
    { DashLedger(1, "A", Acme, "Sundry Debtors", TRUE, Some(50)),
      DashLedger(4, "B", Beta, "Sundry Debtors", TRUE, Some(7)) }

DashBaseVouchers ==
    { DashVoucher(1, "A", 1, "Invoice", 100, FALSE, 0, Null),
      DashVoucher(2, "A", 1, "Sales", 20, FALSE, 0, Null),
      DashVoucher(3, "B", 4, "SALES", 60, FALSE, 0, Null) }

DashBaseAllocations ==
    { Allocation(1, 1, 40, TRUE), Allocation(2, 3, 60, TRUE) }

\* every kind of second account of company A
InitDebtors ==
    /\ \E n \in { Acme, Cash, Bank, PettyCash, CashInHand, NullName },
          g \in GroupPool, a \in BOOLEAN,
          b \in { Null, Some(-5), Some(0), Some(10) } :
         ledgers = DashBaseLedgers \cup { DashLedger(2, "A", n, g, a, b) }
    /\ vouchers = DashBaseVouchers
    /\ payment_references = DashBaseAllocations

AllocationPool ==
    { Allocation(1, 1, 40, TRUE), Allocation(2, 1, 60, TRUE),
      Allocation(3, 1, 100, TRUE), Allocation(4, 1, 60, FALSE),
      Allocation(5, 3, 100, TRUE) }

\* every kind of voucher 1 of company A, with at most MaxAllocations
\* allocations
InitInvoices ==
    /\ ledgers = DashBaseLedgers
    /\ \E ty \in { "SALES", "Invoice", "Sales" }, a \in { 0, 100 },
          x \in BOOLEAN :
         vouchers = { DashVoucher(1, "A", 1, ty, a, x, 0, Null),
                      DashVoucher(3, "B", 4, "SALES", 60, FALSE, 0, Null) }
    /\ payment_references \in { P \in SUBSET AllocationPool :
                                    Cardinality(P) <= MaxAllocations }

DuePool == { Some(-29), Some(-30), Some(-31), Some(-59), Some(-60), Some(-61),
             Some(-89), Some(-90), Some(-91) }

\* two unpaid invoices of company A: one with a due date, one aged from its
\* transaction date
InitDue ==
    /\ ledgers = DashBaseLedgers
    /\ \E d \in DuePool, e \in { 0, -30, -45, -90 } :
         vouchers = { DashVoucher(1, "A", 1, "Invoice", 100, FALSE, 0, d),
                      DashVoucher(2, "A", 1, "SALES", 30, FALSE, e, Null),
                      DashVoucher(3, "B", 4, "SALES", 60, FALSE, 0, Null) }
    /\ payment_references = { Allocation(1, 1, 40, TRUE) }

InitDash ==
    /\ companies = [c \in Tenants |-> TRUE]
    /\ InitDebtors \/ InitInvoices \/ InitDue
    /\ customer_summary = {}
    /\ business_overview = {}
    /\ dashboard_metrics \in DashPriors
    /\ slow = FALSE
    /\ InitControl
    /\ web = NoService

RequestStep(q) ==
    \/ RDStart(q)
    \/ RDVouchers(q)
    \/ RDLedgers(q)
    \/ RDMetrics(q)
    \/ RDFails(q)

NextDash == \E q \in Requests : RequestStep(q)

SpecDash == InitDash /\ [][NextDash]_vars

(***************************************************************************)
(* The two pipelines on one store: the startup job's fleet cycle refreshes *)
(* company A while a refresh_dashboard request runs, for any company.  The *)
(* two debtors of company A have the same opening balance and one voucher  *)
(* of 100 each, under labels of the same kind.                             *)
(***************************************************************************)
BothLedger(id, c, name, opening, balance) ==
    [ DashLedger(id, c, name, "Sundry Debtors", TRUE, balance)
        EXCEPT !.opening_balance = opening ]

\* the label of the first debtor's voucher and the labels the second
\* debtor's voucher can carry
LabelPairs ==
    ({"Invoice"} \X SalesLabels) \cup ({"Receipt"} \X ReceiptLabels)

BothPriors ==
    { << {}, {}, {} >>,
      << StaleSummaries, StaleOverviews,
         { DashStale("A", 0), DashStale("A", 1), DashStale("B", 0) } >> }

InitBoth ==
    /\ companies = [c \in Tenants |-> c = "A"]
    /\ ledgers = { BothLedger(1, "A", Acme, Some(50), Some(50)),
                   BothLedger(2, "A", Zed, Some(50), Some(50)),
                   BothLedger(4, "B", Beta, Some(0), Some(7)) }
    /\ \E ty \in LabelPairs :
         vouchers = { DashVoucher(1, "A", 1, ty[1], 100, FALSE, 0, Null),
                      DashVoucher(2, "A", 2, ty[2], 100, FALSE, 0, Null),
                      DashVoucher(3, "B", 4, "SALES", 60, FALSE, 0, Null) }
    /\ payment_references = { Allocation(1, 1, 40, TRUE), Allocation(2, 2, 40, TRUE) }
    /\ \E p \in BothPriors : /\ customer_summary = p[1]
                              /\ business_overview = p[2]
                              /\ dashboard_metrics = p[3]
    /\ slow = FALSE
    /\ InitControl
    /\ web = NoService

NextBoth ==
    \/ NextRows
    \/ RequestStep("first")

SpecBoth == InitBoth /\ [][NextBoth]_vars

(***************************************************************************)
(* The web service (main.py): start-up, the data operations of             *)
(* utils/database.py and the text generation of services/openai_service.py *)
(* as the endpoints /ai/vendor-insights, /ai/cashflow-insight and /ai/chat *)
(* call them.  A call's result is the value it returns or the exception it *)
(* raises.                                                                 *)
(***************************************************************************)
Return(v) == [kind |-> "return", value |-> v]

Raise(e) == [kind |-> "raise", error |-> e]

Endpoints == {"vendor-insights", "cashflow-insight", "chat"}

\* the ways openai.ChatCompletion.create and the reading of its response end
CallOutcomes == {"text", "APIError", "Timeout", "IndexError", "AttributeError"}

\* utils/database.py lines 13-27
GetDbConnection(url, reachable) ==
    IF ~url THEN Raise("DATABASE_URL not found")
    ELSE IF ~reachable THEN Raise("OperationalError")
    ELSE Return("conn")

\* utils/database.py lines 29-41 (and 43-99): any exception gives []
DataOp(url, reachable, rows) ==
    IF GetDbConnection(url, reachable).kind = "raise" THEN Return(<<>>)
    ELSE Return(rows)

\* a mutant of Caught: only the errors of the API are handled
CaughtApiErrorsOnly(e) == e \in {"APIError", "Timeout"}

\* services/openai_service.py lines 44, 83, 113: except Exception
Caught(e) == e \in {"APIError", "Timeout", "IndexError", "AttributeError",
                    "TypeError"}

\* lines 32-42: the call and response.choices[0].message.content.strip()
Completion(o) == IF o = "text" THEN Return(<<"generated text">>) ELSE Raise(o)

\* lines 14-29 and 52-53: building the prompt formats the amounts of the
\* rows, which fails on a row whose amount is None
Prompt(rows) ==
    IF \E i \in DOMAIN rows : rows[i] = "amount_none" THEN Raise("TypeError")
    ELSE Return("prompt")

\* the try block and its handler: the fallback string for a caught error
Guarded(body, fallback) ==
    IF body.kind = "raise" /\ Caught(body.error) THEN Return(fallback)
    ELSE body

\* lines 10-46
GenerateVendorInsight(vendor, o) ==
    LET body == IF Prompt(<<vendor>>).kind = "raise" THEN Prompt(<<vendor>>)
                ELSE Completion(o)
    IN  Guarded(body, IF body.kind = "raise"
                      THEN <<"Unable to generate insight: ", body.error>>
                      ELSE <<>>)

\* lines 48-85
GenerateCashflowInsight(aging, transactions, o) ==
    Guarded(IF Prompt(aging).kind = "raise" THEN Prompt(aging) ELSE Completion(o),
            <<"Unable to generate cash flow insight">>)

\* lines 87-115
AnswerQuestion(context, o) ==
    LET body == Completion(o)
    IN  Guarded(body, IF body.kind = "raise"
                      THEN <<"Unable to answer question: ", body.error>>
                      ELSE <<>>)

\* the data operations each endpoint calls (main.py lines 138, 172-173,
\* 272-273)
Reads(e) ==
    IF e = "vendor-insights" THEN {"get_vendor_scores"}
    ELSE IF e = "cashflow-insight" THEN {"get_outstanding_aging", "get_transactions"}
    ELSE {"get_vendors", "get_transactions"}

\* main.py lines 140-145 and 175-180: the reply without text generation
NoData(e, data) ==
    \/ e = "vendor-insights" /\ data["get_vendor_scores"].value = <<>>
    \/ /\ e = "cashflow-insight"
       /\ data["get_outstanding_aging"].value = <<>>
       /\ data["get_transactions"].value = <<>>

\* main.py lines 149, 182, 280: the text generation the endpoint awaits
TextOf(e, data, o) ==
    IF e = "vendor-insights"
    THEN GenerateVendorInsight(data["get_vendor_scores"].value[1], o)
    ELSE IF e = "cashflow-insight"
    THEN GenerateCashflowInsight(data["get_outstanding_aging"].value,
                                 data["get_transactions"].value, o)
    ELSE AnswerQuestion(data, o)

\* main.py lines 150-166, 184-194, 282-289: the reply after the text; the
\* endpoint converts the amounts of the rows itself, and its handler turns
\* any exception into status 500
ReplyOf(e, data, text) ==
    IF text.kind = "raise" THEN Raise(text.error)
    ELSE IF e = "vendor-insights"
    THEN (IF Prompt(data["get_vendor_scores"].value).kind = "raise"
          THEN Raise("TypeError") ELSE Return(200))
    ELSE IF e = "cashflow-insight"
    THEN (IF Prompt(data["get_outstanding_aging"].value).kind = "raise"
          THEN Raise("TypeError") ELSE Return(200))
    ELSE Return(200)

\* main.py lines 46-49: startup_event starts the scheduler and the
\* application serves
Startup ==
    /\ ~web.up
    /\ web' = [web EXCEPT !.up = TRUE]
    /\ UNCHANGED <<store, tables, now, slow, pc, queue, cur, runs, tx, log,
                   outcome, fetched, refreshed, snap, rd>>

\* refresh_scheduler.py lines 27-32 and 436-465 as the scheduler runs them:
\* create_pool gets os.getenv("DATABASE_URL"); without it the pool is made
\* from the driver's defaults, which reach a server or raise
PeriodicRefresh ==
    /\ web.up
    /\ web.pc = "idle"
    /\ \E reachable \in BOOLEAN :
         web' = [web EXCEPT !.refresh = IF reachable THEN Return("completed")
                                        ELSE Raise("OSError")]
    /\ UNCHANGED <<store, tables, now, slow, pc, queue, cur, runs, tx, log,
                   outcome, fetched, refreshed, snap, rd>>

\* a request arrives at one of the endpoints
Request ==
    /\ web.up
    /\ web.pc = "idle"
    /\ \E e \in Endpoints :
         web' = [web EXCEPT !.pc = "data", !.endpoint = e,
                            !.data = [op \in DataOps |-> NotCalled],
                            !.outcome = "none", !.text = NotCalled,
                            !.reply = NotCalled]
    /\ UNCHANGED <<store, tables, now, slow, pc, queue, cur, runs, tx, log,
                   outcome, fetched, refreshed, snap, rd>>

\* the vendor and aging rows a query may return
RowLists == { <<>>, <<"complete">>, <<"amount_none">> }

\* the endpoint's data operations
FetchData ==
    /\ web.pc = "data"
    /\ \E reachable \in BOOLEAN, rows \in RowLists, more \in {<<>>, <<"complete">>} :
         LET data == [op \in DataOps |->
                        IF op \notin Reads(web.endpoint) THEN NotCalled
                        ELSE IF op \in {"get_vendor_scores", "get_outstanding_aging"}
                        THEN DataOp(web.db_url, reachable, rows)
                        ELSE DataOp(web.db_url, reachable, more)]
         IN  web' = IF NoData(web.endpoint, data)
                    THEN [web EXCEPT !.data = data, !.pc = "idle",
                                     !.reply = Return(200)]
                    ELSE [web EXCEPT !.data = data, !.pc = "text"]
    /\ UNCHANGED <<store, tables, now, slow, pc, queue, cur, runs, tx, log,
                   outcome, fetched, refreshed, snap, rd>>

\* the text generation, then the reply
GenerateAndReply ==
    /\ web.pc = "text"
    /\ \E o \in CallOutcomes :
         LET text == TextOf(web.endpoint, web.data, o)
         IN  web' = [web EXCEPT !.outcome = o, !.text = text, !.pc = "idle",
                                !.reply = ReplyOf(web.endpoint, web.data, text)]
    /\ UNCHANGED <<store, tables, now, slow, pc, queue, cur, runs, tx, log,
                   outcome, fetched, refreshed, snap, rd>>

InitService ==
    /\ companies = [c \in Tenants |-> TRUE]
    /\ ledgers = BaseLedgers
    /\ vouchers = BaseVouchers
    /\ payment_references = {}
    /\ customer_summary = {}
    /\ business_overview = {}
    /\ dashboard_metrics = {}
    /\ slow = FALSE
    /\ InitControl
    /\ \E u \in BOOLEAN : web = [NoService EXCEPT !.db_url = u]

NextService ==
    \/ Startup
    \/ PeriodicRefresh
    \/ Request
    \/ FetchData
    \/ GenerateAndReply

SpecService == InitService /\ [][NextService]_vars

(***************************************************************************)
(* Properties.                                                             *)
(***************************************************************************)
Range(q) == { q[i] : i \in DOMAIN q }

IsPrefix(p, q) == Len(p) <= Len(q) /\ SubSeq(q, 1, Len(p)) = p

\* the ledger account a customer_summary row was computed for
LedgerOf(r) == CHOOSE l \in ledgers : l.guid = r.customer_guid

\* the non-cancelled vouchers of account l whose type is one of labels
Posted(l, labels) ==
    { v \in vouchers : /\ v.party_ledger_id = l.id
                       /\ v.is_cancelled = FALSE
                       /\ v.voucher_type \in labels }

\* C1: once refresh_customer_summary has committed for a company, every
\* customer_summary row of the company has opening_balance = the account's
\* opening balance (0 when missing), sales_value = the sum of its
\* non-cancelled 'Sales', 'SALES', 'Invoice' and 'Sales Invoice' vouchers,
\* receipts_value = the sum of its non-cancelled 'Receipt', 'RECEIPT' and
\* 'Payment Received' vouchers, and
\* outstanding_amount = opening_balance + sales_value - receipts_value
C1_OutstandingIsOpeningPlusSalesMinusReceipts ==
    \A c \in refreshed : \A r \in OfCompany(customer_summary, c) :
        LET l == LedgerOf(r)
        IN  /\ r.opening_balance =
                 (IF l.opening_balance = Null THEN 0 ELSE l.opening_balance[1])
            /\ r.sales_value =
                 SumOver([v \in Posted(l, {"Sales", "SALES", "Invoice", "Sales Invoice"})
                             |-> v.total_amount])
            /\ r.receipts_value =
                 SumOver([v \in Posted(l, {"Receipt", "RECEIPT", "Payment Received"})
                             |-> v.total_amount])
            /\ r.outstanding_amount =
                 r.opening_balance + r.sales_value - r.receipts_value

\* C1 witness: a committed row of an account without opening balance whose
\* only sale is a 'Sales Invoice' and whose only receipt a 'Payment Received'
C1_Witness ==
    /\ "A" \in refreshed
    /\ \E r \in OfCompany(customer_summary, "A") :
         /\ LedgerOf(r).opening_balance = Null
         /\ { v.voucher_type : v \in Posted(LedgerOf(r), SalesLabels \cup ReceiptLabels) }
              = {"Sales Invoice", "Payment Received"}
         /\ r.sales_value = 30
         /\ r.receipts_value = 30
         /\ r.outstanding_amount = 0

\* the company whose business_overview job j has committed in its current
\* refresh_company_ai_data call
OverviewCommitted(j, c) == cur[j] = c /\ "bo_commit" \in Range(log[j])

\* C2: once refresh_business_overview has committed for a company, each
\* business_overview row of the company has total_receivables = the sum of
\* outstanding_amount over the company's customer_summary rows with
\* outstanding_amount > 0 and total_advances = the sum of -outstanding_amount
\* over the rows with outstanding_amount < 0; neither is negative
C2_ReceivablesAndAdvancesApart ==
    \A j \in Jobs : \A c \in Tenants :
        OverviewCommitted(j, c) =>
            \A b \in OfCompany(business_overview, c) :
                LET C == OfCompany(customer_summary, c)
                IN  /\ b.total_receivables =
                         SumOver([r \in { x \in C : x.outstanding_amount > 0 }
                             |-> r.outstanding_amount])
                    /\ b.total_advances =
                         SumOver([r \in { x \in C : x.outstanding_amount < 0 }
                             |-> -r.outstanding_amount])
                    /\ b.total_receivables >= 0
                    /\ b.total_advances >= 0

\* C2 witness: a company with 50 receivable and 30 advance shows 50 and 30
C2_Witness ==
    \E j \in Jobs :
        /\ OverviewCommitted(j, "A")
        /\ { r.outstanding_amount : r \in OfCompany(customer_summary, "A") } = {50, -30}
        /\ \E b \in OfCompany(business_overview, "A") :
             b.total_receivables = 50 /\ b.total_advances = 30

\* the totals of company c's business_overview rows are those of its
\* customer_summary rows
OverviewCurrent(c) ==
    \A b \in OfCompany(business_overview, c) :
        LET C == OfCompany(customer_summary, c)
        IN  /\ b.total_receivables =
                 SumOver([r \in { x \in C : x.outstanding_amount > 0 }
                             |-> r.outstanding_amount])
            /\ b.total_advances =
                 SumOver([r \in { x \in C : x.outstanding_amount < 0 }
                             |-> -r.outstanding_amount])
            /\ b.total_sales = SumOver([r \in C |-> r.sales_value])

\* job j's refresh of its company has just failed in the given stages
FailedIn(j, stages) ==
    /\ pc[j] = "loop"
    /\ log[j] # <<>>
    /\ log[j][Len(log[j])] \in { st \o "_fail" : st \in stages }

\* C3: when the Business Overview or the Dashboard Metrics stage of a
\* company's cycle fails, the store is not left with the customer_summary
\* rows of that cycle committed and business_overview holding older totals
C3_AllOrNothing ==
    \A j \in Jobs :
        FailedIn(j, {"bo", "dm"}) =>
            ~ ( /\ "cs_commit" \in Range(log[j])
                /\ ~ OverviewCurrent(cur[j]) )

StageEvents ==
    << "cs_start", "cs_commit", "bo_start", "bo_commit", "dm_start", "dm_commit" >>

\* the stage that is running, or about to be called, after the first k events
StageAfter(k) == IF k < 2 THEN "cs" ELSE IF k < 4 THEN "bo" ELSE "dm"

\* C4: the events of one refresh_company_ai_data call are a prefix of
\* cs_start, cs_commit, bo_start, bo_commit, dm_start, dm_commit, or such a
\* prefix followed by the failure of the stage it had reached and nothing
\* more; a job is in the Business Overview stage only after cs_commit and in
\* the Dashboard Metrics stage only after bo_commit
C4_StagesInOrder ==
    \A j \in Jobs :
        LET L == log[j]
        IN  /\ \/ IsPrefix(L, StageEvents)
               \/ /\ L # <<>>
                  /\ IsPrefix(SubSeq(L, 1, Len(L) - 1), StageEvents)
                  /\ L[Len(L)] = StageAfter(Len(L) - 1) \o "_fail"
                  /\ pc[j] \notin StagePcs
            /\ pc[j] \in StagePcs =>
                 StageOf(pc[j]) = StageAfter(Len(L))

\* C4 witness: the Business Overview stage failed after Customer Summary
\* committed, and the job is back in the loop
C4_Witness ==
    \E j \in Jobs :
        /\ log[j] = << "cs_start", "cs_commit", "bo_start", "bo_fail" >>
        /\ pc[j] = "loop"

\* no job has started a fleet cycle after job j's current one
Latest(j) ==
    /\ \A k \in Jobs \ {j} : pc[k] \in Resting
    /\ j = "startup" => runs["interval"] = 0
    /\ j = "interval" => runs[j] = MaxRuns

\* C5: when a fleet cycle ends, every active company has been refreshed or
\* has failed, whatever happened to the others; and, no other cycle having
\* run meanwhile, a company whose stages all succeeded holds the
\* customer_summary rows this cycle inserted and business_overview totals
\* that agree with them
C5_FailureDoesNotStopCycle ==
    \A j \in Jobs :
        pc[j] = "done" =>
            \A c \in ActiveCompanies :
                /\ outcome[j][c] \in {"ok", "failed"}
                /\ (outcome[j][c] = "ok" /\ ~slow /\ Latest(j)) =>
                     /\ c \in refreshed
                     /\ \A r \in OfCompany(customer_summary, c) :
                          r.rid = <<j, runs[j]>>
                     /\ OverviewCurrent(c)

\* C5 witness: company A came first and failed, company B was refreshed
C5_Witness ==
    \E j \in Jobs :
        /\ pc[j] = "done"
        /\ fetched[j] = << "A", "B" >>
        /\ outcome[j]["A"] = "failed"
        /\ outcome[j]["B"] = "ok"
        /\ OfCompany(customer_summary, "B") # {}

\* a row without the physical row identity, which no column holds
StripRid(r) == [ f \in DOMAIN r \ {"rid"} |-> r[f] ]

\* the derived rows of company c, column for column
Columns(d) ==
    [ summary  |-> { StripRid(r) : r \in d.summary },
      overview |-> d.overview,
      metrics  |-> d.metrics ]

\* job j's refresh_company_ai_data returns normally in this step
Returns(j) ==
    /\ pc[j] = "dm_commit"
    /\ pc'[j] = "loop"
    /\ outcome'[j][cur[j]] = "ok"

\* C6: when a company's full cycle succeeds right after another full cycle
\* of the company succeeded (no other refresh of the company in between, the
\* Ledger Store unchanged), every customer_summary, business_overview and
\* dashboard_metrics row of the company is, field for field, what it was
\* after the first of the two
C6_SecondRunLeavesRowsIdentical ==
    [][ \A j \in Jobs :
          (Returns(j) /\ ~slow /\ snap[cur[j]] # Null) =>
              Columns(Derived(cur[j]))' = Columns(snap[cur[j]][1]) ]_vars

\* the columns of a customer_summary row that neither the clock nor the
\* order of tied rows can reach
Settled(r) ==
    [ f \in DOMAIN r \ {"rid", "sales_rank", "outstanding_rank",
                        "period_start", "period_end"} |-> r[f] ]

\* rows old (after the first cycle) and new (after the second) of a company:
\* the same customers with the same values; a rank differs only between rows
\* that tie on its sort key, a period bound only when the company has no
\* voucher
SummariesAlike(c, old, new) ==
    /\ { Settled(r) : r \in old } = { Settled(r) : r \in new }
    /\ \A o \in old : \A n \in new :
         o.customer_guid = n.customer_guid =>
           /\ o.sales_rank # n.sales_rank =>
                \E x \in new \ {n} : x.sales_value = n.sales_value
           /\ o.outstanding_rank # n.outstanding_rank =>
                \E x \in new \ {n} : x.outstanding_amount = n.outstanding_amount
           /\ <<o.period_start, o.period_end>> # <<n.period_start, n.period_end>> =>
                { v \in vouchers : v.company_guid = c } = {}

\* dashboard_metrics rows but for calculated_at
Uncalculated(D) == { [ f \in DOMAIN d \ {"calculated_at"} |-> d[f] ] : d \in D }

\* C6 (amended): the second of two successive successful cycles of a company
\* leaves every derived row as the first did, except calculated_at of
\* dashboard_metrics, the ranks of customers that tie on the sort key, and
\* the period bounds of a company without vouchers
C6_SecondRunLeavesRowsAlike ==
    [][ \A j \in Jobs :
          (Returns(j) /\ ~slow /\ snap[cur[j]] # Null) =>
              LET c   == cur[j]
                  old == snap[c][1]
              IN  /\ SummariesAlike(c, old.summary, OfCompany(customer_summary', c))
                  /\ OfCompany(business_overview', c) = old.overview
                  /\ Uncalculated(OfCompany(dashboard_metrics', c))
                       = Uncalculated(old.metrics) ]_vars

\* C6 witness: the interval run refreshed company B right after the startup
\* run had, a tick later: the dashboard_metrics row and the period end show
\* the later tick
C6_Witness ==
    /\ ~slow
    /\ runs["interval"] = 1
    /\ outcome["startup"]["B"] = "ok"
    /\ outcome["interval"]["B"] = "ok"
    /\ snap["B"] # Null
    /\ \E d \in OfCompany(dashboard_metrics, "B") : d.calculated_at = 1
    /\ \E r \in OfCompany(customer_summary, "B") :
         r.rid = <<"interval", 1>> /\ r.period_end = 1

\* job j has just returned from a successful refresh of company c, and no
\* other refresh overlapped it
Succeeded(j, c) ==
    /\ ~slow
    /\ pc[j] = "loop"
    /\ cur[j] = c
    /\ outcome[j][c] = "ok"

\* C7: a successful cycle that starts from an empty Projection Store ends
\* with no business_overview and no dashboard_metrics row of the company
\* (both stages only UPDATE), so, the derived state being a function of the
\* Ledger Store alone, every successful cycle of the company ends like that
C7_DerivedStateIgnoresPriorStore ==
    \A j \in Jobs : \A c \in Tenants :
        Succeeded(j, c) =>
            /\ OfCompany(business_overview, c) = {}
            /\ OfCompany(dashboard_metrics, c) = {}

\* C8: customer_summary never holds two rows of the same company and
\* customer
C8_OneRowPerCustomer ==
    \A r1, r2 \in customer_summary :
        (r1.company_guid = r2.company_guid /\ r1.customer_guid = r2.customer_guid)
            => r1 = r2

\* C9: no two jobs are inside refresh_company_ai_data for the same company
\* at the same time
C9_OneRefreshPerCompany ==
    \A j, k \in Jobs :
        (j # k /\ pc[j] \in StagePcs /\ pc[k] \in StagePcs) => cur[j] # cur[k]

\* C10: after a refresh of a company, each of its customer_summary rows is
\* the row of an active 'Sundry Debtors' account whose name is not empty, not
\* missing and, lower-cased, none of cash, bank, cash in hand, petty cash,
\* bank account, bank accounts
C10_CashAndBankAccountsExcluded ==
    \A c \in refreshed : \A r \in OfCompany(customer_summary, c) :
        /\ Lower(r.customer_name) \notin
             { <<"c","a","s","h">>, <<"b","a","n","k">>,
               <<"c","a","s","h"," ","i","n"," ","h","a","n","d">>,
               <<"p","e","t","t","y"," ","c","a","s","h">>,
               <<"b","a","n","k"," ","a","c","c","o","u","n","t">>,
               <<"b","a","n","k"," ","a","c","c","o","u","n","t","s">> }
        /\ r.customer_name \notin { <<>>, NullName }
        /\ \E l \in ledgers : /\ l.guid = r.customer_guid
                              /\ l.name = r.customer_name
                              /\ l.active = TRUE
                              /\ l.parent_group = "Sundry Debtors"

\* C10 witness: an active 'Sundry Debtors' account named in upper case after
\* an excluded name holds a balance, its company has been refreshed and has
\* customer_summary rows
C10_Witness ==
    /\ "A" \in refreshed
    /\ OfCompany(customer_summary, "A") # {}
    /\ \E l \in ledgers : /\ l.company_guid = "A"
                          /\ l.name = Bank
                          /\ l.active = TRUE
                          /\ l.parent_group = "Sundry Debtors"
                          /\ l.opening_balance = Some(50)

\* C12: once refresh_customer_summary has committed for a company with N
\* customer_summary rows, the sales_rank values of the rows are exactly
\* 1..N, each once, and so are the outstanding_rank values; a row with a
\* larger sales_value never has a larger sales_rank than a row with a
\* smaller one (so a row with the highest sales_value has sales_rank 1), and
\* likewise for outstanding_amount and outstanding_rank
C12_RanksArePermutation ==
    \A c \in refreshed :
        LET C == OfCompany(customer_summary, c)
            N == Cardinality(C)
        IN  /\ { r.sales_rank : r \in C } = 1..N
            /\ { r.outstanding_rank : r \in C } = 1..N
            /\ \A a, b \in C :
                 /\ a # b => /\ a.sales_rank # b.sales_rank
                             /\ a.outstanding_rank # b.outstanding_rank
                 /\ a.sales_value > b.sales_value => a.sales_rank < b.sales_rank
                 /\ a.outstanding_amount > b.outstanding_amount
                      => a.outstanding_rank < b.outstanding_rank
            /\ \A a \in C :
                 (\A b \in C \ {a} : a.sales_value > b.sales_value)
                     => a.sales_rank = 1

\* C12 witness: two committed rows, the one with the larger sales_value
\* ranked 1 by sales and 2 by outstanding
C12_Witness ==
    /\ "A" \in refreshed
    /\ \E a, b \in OfCompany(customer_summary, "A") :
         /\ a.sales_value > b.sales_value
         /\ a.outstanding_amount < b.outstanding_amount
         /\ a.sales_rank = 1 /\ b.sales_rank = 2
         /\ a.outstanding_rank = 2 /\ b.outstanding_rank = 1

\* C13: in every customer_summary row of a refreshed company, balance_status
\* is OWES_MONEY exactly when outstanding_amount > 0, HAS_ADVANCE exactly
\* when outstanding_amount < 0 and SETTLED exactly when outstanding_amount = 0
C13_StatusAgreesWithOutstanding ==
    \A c \in refreshed : \A r \in OfCompany(customer_summary, c) :
        /\ r.balance_status = "OWES_MONEY" <=> r.outstanding_amount > 0
        /\ r.balance_status = "HAS_ADVANCE" <=> r.outstanding_amount < 0
        /\ r.balance_status = "SETTLED" <=> r.outstanding_amount = 0

\* C20 as stated: sales_formatted is banded by magnitude, and 12,000,000
\* gives the text 1.2 Cr, 250,000 gives 2.5 L, 4,500 gives 4.5 K and 500
\* gives 500
C20_BandsWithShortestDecimals ==
    \A c \in refreshed : \A r \in OfCompany(customer_summary, c) :
        /\ r.sales_value >= Crore => r.sales_formatted.suffix = " Cr"
        /\ r.sales_value < Crore /\ r.sales_value >= Lakh
             => r.sales_formatted.suffix = " L"
        /\ r.sales_value < Lakh /\ r.sales_value >= Thousand
             => r.sales_formatted.suffix = " K"
        /\ r.sales_value < Thousand
             => r.sales_formatted = Money(r.sales_value, 0, "")
        /\ r.sales_value = 12000000 => r.sales_formatted = Money(12, 1, " Cr")
        /\ r.sales_value = 250000 => r.sales_formatted = Money(25, 1, " L")
        /\ r.sales_value = 4500 => r.sales_formatted = Money(45, 1, " K")
        /\ r.sales_value = 500 => r.sales_formatted = Money(500, 0, "")

\* C20: sales_formatted is banded by magnitude with the quotient rounded at
\* the formatting step: a sales_value >= 10,000,000 is written as
\* sales_value / 1e7 rounded to two decimals with Cr, >= 100,000 as
\* sales_value / 1e5 rounded to two decimals with L, >= 1,000 as
\* sales_value / 1e3 rounded to one decimal with K, and a smaller one as the
\* whole number; so 12,000,000 gives 1.20 Cr, 250,000 gives 2.50 L, 4,500
\* gives 4.5 K and 500 gives 500
C20_BandsWithFixedDecimals ==
    \A c \in refreshed : \A r \in OfCompany(customer_summary, c) :
        LET s == r.sales_value
            f == r.sales_formatted
        IN  /\ s >= Crore
                 => /\ f.suffix = " Cr" /\ f.dp = 2
                    /\ Abs(f.digits * Crore - s * 100) <= Crore \div 2
            /\ s < Crore /\ s >= Lakh
                 => /\ f.suffix = " L" /\ f.dp = 2
                    /\ Abs(f.digits * Lakh - s * 100) <= Lakh \div 2
            /\ s < Lakh /\ s >= Thousand
                 => /\ f.suffix = " K" /\ f.dp = 1
                    /\ Abs(f.digits * Thousand - s * 10) <= Thousand \div 2
            /\ s < Thousand => f = Money(s, 0, "")
            /\ s = 12000000 => f = Money(120, 2, " Cr")
            /\ s = 250000 => f = Money(250, 2, " L")
            /\ s = 4500 => f = Money(45, 1, " K")
            /\ s = 500 => f = Money(500, 0, "")

\* C20 witness: committed rows with sales of 12,000,000 and of 500, written
\* as 1.20 Cr and as 500
C20_Witness ==
    /\ "A" \in refreshed
    /\ \E a, b \in OfCompany(customer_summary, "A") :
         /\ a.sales_value = 12000000
         /\ a.sales_formatted = Money(120, 2, " Cr")
         /\ b.sales_value = 500
         /\ b.sales_formatted = Money(500, 0, "")

\* the vouchers the invoice-aging pass of request q has processed
Processed(q) ==
    IF rd[q].done >= 1
    THEN { v \in vouchers : /\ v.company_guid = rd[q].company
                            /\ v.voucher_type \in InvoiceTypes }
    ELSE {}

\* the sum of the active allocations of voucher v
ActiveSum(v) ==
    SumOver([p \in { x \in payment_references :
                        x.invoice_voucher_id = v.id /\ x.is_active }
                |-> p.allocated_amount])

\* C14 as stated: every invoice the pass has processed is CANCELLED when
\* cancelled; otherwise PAID when its active allocations sum to at least its
\* total; otherwise PARTIAL when the sum is positive; and UNPAID when it has
\* no active allocation, whatever its total
C14_StatusRulesForEveryTotal ==
    \A q \in Requests : \A v \in Processed(q) :
        /\ v.is_cancelled => v.payment_status = "CANCELLED"
        /\ ~v.is_cancelled /\ ActiveSum(v) >= v.total_amount
             => v.payment_status = "PAID"
        /\ ~v.is_cancelled /\ ActiveSum(v) < v.total_amount /\ ActiveSum(v) > 0
             => v.payment_status = "PARTIAL"
        /\ ~v.is_cancelled /\ ActiveAllocations(v) = {}
             => v.payment_status = "UNPAID"

\* C14: every invoice the pass has processed is CANCELLED when cancelled;
\* otherwise PAID when its active allocations sum to at least its total
\* (exactly the total is PAID); otherwise PARTIAL when the sum is positive;
\* and UNPAID when it has no active allocation and a positive total
C14_StatusRules ==
    \A q \in Requests : \A v \in Processed(q) :
        /\ v.is_cancelled => v.payment_status = "CANCELLED"
        /\ ~v.is_cancelled /\ ActiveSum(v) >= v.total_amount
             => v.payment_status = "PAID"
        /\ ~v.is_cancelled /\ ActiveSum(v) < v.total_amount /\ ActiveSum(v) > 0
             => v.payment_status = "PARTIAL"
        /\ ~v.is_cancelled /\ ActiveAllocations(v) = {} /\ v.total_amount > 0
             => v.payment_status = "UNPAID"

\* C14 witness: a processed invoice of 100, not cancelled, whose
\* two active allocations sum to exactly 100, and is PAID
C14_Witness ==
    \E q \in Requests : \E v \in Processed(q) :
        /\ ~v.is_cancelled /\ v.total_amount = 100
        /\ ActiveSum(v) = 100
        /\ Cardinality(ActiveAllocations(v)) = 2
        /\ v.payment_status = "PAID"

\* C11: the dashboard snapshot a refresh_dashboard call wrote counts, and
\* sums the balances of, the company's positive-balance 'Sundry Debtors'
\* accounts other than those named Cash, Bank or Petty Cash in any case
C11_SnapshotLeavesOutCashAndBank ==
    \A q \in Requests :
        rd[q].wrote # Null =>
            LET s == rd[q].wrote[1]
                Counted ==
                    { l \in ledgers :
                        /\ l.company_guid = rd[q].company
                        /\ l.parent_group = "Sundry Debtors"
                        /\ l.current_balance # Null
                        /\ l.current_balance[1] > 0
                        /\ Lower(l.name) \notin { <<"c","a","s","h">>,
                                                  <<"b","a","n","k">>,
                                                  <<"p","e","t","t","y"," ","c","a","s","h">> } }
            IN  /\ s.customer_count = Some(Cardinality(Counted))
                /\ s.total_receivable =
                       Some(SumOver([l \in Counted |-> l.current_balance[1]]))

\* the days from coalesce(due_date, date) of voucher v to the day the
\* invoice-aging pass last processed it
AgedDays(v) ==
    CurrentDate(v.payment_computed_at[1])
        - (IF v.due_date # Null THEN v.due_date[1] ELSE v.date)

SnapshotsOf(rows, c, d) ==
    { r \in rows : r.company_guid = c /\ r.data_as_of_date = d }

\* C16: every write of the dashboard_metrics snapshot by refresh_dashboard
\* leaves exactly one row for its (company_guid, data_as_of_date) key, with
\* the total, the four bucket sums, the customer count and the calculated_at
\* of that write, and leaves the rows of every other key as they were
C16_UpsertKeepsOneRowPerKey ==
    [][\A q \in Requests :
          rd[q].pc = "metrics" /\ rd'[q].pc = "done" =>
              LET c == rd[q].company
                  d == CurrentDate(now')
                  s == rd'[q].wrote[1]
                  K == SnapshotsOf(dashboard_metrics', c, d)
              IN  /\ Cardinality(K) = 1
                  /\ \A r \in K :
                       /\ r.total_receivable = s.total_receivable
                       /\ r.receivable_0_30 = s.receivable_0_30
                       /\ r.receivable_31_60 = s.receivable_31_60
                       /\ r.receivable_61_90 = s.receivable_61_90
                       /\ r.receivable_90_plus = s.receivable_90_plus
                       /\ r.customer_count = s.customer_count
                       /\ r.calculated_at = now'
                  /\ dashboard_metrics' \ K
                       = dashboard_metrics \ SnapshotsOf(dashboard_metrics, c, d)
                  /\ Cardinality(SnapshotsOf(dashboard_metrics, c, d)) <= 1
      ]_vars

\* C16 witness: both requests have written the snapshot of company A for the
\* same day over a row an earlier call left; one row holds the key, with the
\* values of the writes, and the rows of the other keys are still there
C16_Witness ==
    /\ \A q \in Requests : /\ rd[q].pc = "done" /\ rd[q].company = "A"
                           /\ rd[q].wrote[1].data_as_of_date = 0
    /\ \E r \in dashboard_metrics :
         /\ SnapshotsOf(dashboard_metrics, "A", 0) = {r}
         /\ r.overdue_customer_count = Some(4)
         /\ r.total_receivable = rd["second"].wrote[1].total_receivable
         /\ r.total_receivable # Some(7)
    /\ DashStale("B", 0) \in dashboard_metrics
    /\ DashStale("A", 1) \in dashboard_metrics

\* C17: once the Dashboard Metrics stage has committed for a company, no
\* numeric total of the company in the derived tables is NaN or NULL: not
\* total_receivable and customer_count of its dashboard_metrics rows, and not
\* the totals of its business_overview rows
C17_NoTotalIsNaNOrNull ==
    \A j \in Jobs : \A c \in Tenants :
        outcome[j][c] = "ok" =>
            /\ \A r \in OfCompany(dashboard_metrics, c) :
                 /\ r.total_receivable \notin { Null, Some(NaN) }
                 /\ r.customer_count \notin { Null, Some(NaN) }
            /\ \A b \in OfCompany(business_overview, c) :
                 /\ b.total_receivables # NaN
                 /\ b.total_advances # NaN
                 /\ b.total_sales # NaN
                 /\ b.total_receipts # NaN

\* C18: generate_vendor_insight, generate_cashflow_insight and
\* answer_question return a string whatever the text-generation call does
\* and whatever rows they are given, the fallback message when the call or
\* the prompt failed; and the request replies 200 whenever its rows are
\* complete, whatever the call did
C18_TextFailureNeverPropagates ==
    web.text # NotCalled =>
        /\ web.text.kind = "return"
        /\ web.outcome # "text" => /\ web.text.value # <<"generated text">>
                                   /\ web.text.value # <<>>
        /\ (\A op \in DataOps :
               web.data[op] # NotCalled =>
                   \A i \in DOMAIN web.data[op].value :
                       web.data[op].value[i] = "complete")
             => web.reply = Return(200)

\* C18 witness: the call for /ai/cashflow-insight timed out, the function
\* returned its fallback message and the request replied 200
C18_Witness ==
    /\ web.endpoint = "cashflow-insight"
    /\ web.outcome = "Timeout"
    /\ web.text = Return(<<"Unable to generate cash flow insight">>)
    /\ web.reply = Return(200)

\* C19: while DATABASE_URL is unset the service does not serve, no data
\* operation returns a result and no periodic refresh completes
C19_MissingUrlIsFatal ==
    ~web.db_url =>
        /\ ~web.up
        /\ \A op \in DataOps : web.data[op].kind # "return"
        /\ web.refresh.kind # "return"

\* C22: in every customer_summary row of a refreshed company,
\* average_order_value is the row's sales_value divided by the row's
\* sales_count when sales_count > 0, and 0 when sales_count = 0
C22_AverageIsSalesOverCount ==
    \A c \in refreshed : \A r \in OfCompany(customer_summary, c) :
        LET avg == r.average_order_value
        IN  /\ r.sales_count > 0 => avg[1] * r.sales_count = r.sales_value * avg[2]
            /\ r.sales_count = 0 => avg[1] = 0

\* C26: every invoice the invoice-aging pass has processed has amount_paid =
\* the sum of its active payment allocations (inactive allocations are not
\* counted, no active allocation gives 0) and amount_outstanding =
\* total_amount - amount_paid, so the two add up to total_amount
C26_PaidPlusOutstandingIsTotal ==
    \A q \in Requests : \A v \in Processed(q) :
        /\ v.amount_paid = Some(ActiveSum(v))
        /\ (\A p \in payment_references :
               p.invoice_voucher_id = v.id => ~p.is_active)
             => v.amount_paid = Some(0)
        /\ v.amount_outstanding = Some(v.total_amount - ActiveSum(v))
        /\ v.amount_paid[1] + v.amount_outstanding[1] = v.total_amount

\* C26 witness: a processed invoice of 100 with an active allocation of 40
\* and a soft-deleted one of 60 has 40 paid and 60 outstanding
C26_Witness ==
    \E q \in Requests : \E v \in Processed(q) :
        /\ v.total_amount = 100
        /\ \E p, d \in payment_references :
             /\ p.invoice_voucher_id = v.id /\ p.is_active
             /\ p.allocated_amount = 40
             /\ d.invoice_voucher_id = v.id /\ ~d.is_active
             /\ d.allocated_amount = 60
        /\ v.amount_paid = Some(40)
        /\ v.amount_outstanding = Some(60)

\* the invoices of account l that are neither cancelled nor fully paid
OpenInvoices(l) ==
    { v \in vouchers : /\ v.party_ledger_id = l.id
                       /\ v.voucher_type \in {"SALES", "Invoice"}
                       /\ ~v.is_cancelled
                       /\ ActiveSum(v) < v.total_amount }

\* C27: once the ledger statement of the invoice-aging pipeline has run for
\* a company, each of its 'Sundry Debtors' accounts has days_overdue = the
\* days from the date of its earliest invoice that is neither cancelled nor
\* fully paid to the day of the run, and 0 when it has no such invoice;
\* vouchers that are not invoices never count
C27_DaysOverdueFromEarliestOpenInvoice ==
    \A q \in Requests :
        rd[q].done >= 2 =>
            \A l \in ledgers :
                (l.company_guid = rd[q].company /\ l.parent_group = "Sundry Debtors")
                    => /\ l.aging_computed_at # Null
                       /\ l.days_overdue =
                            Some(IF OpenInvoices(l) = {} THEN 0
                                 ELSE CurrentDate(l.aging_computed_at[1])
                                        - Min({ v.date : v \in OpenInvoices(l) }))

\* C27 witness: an account with a partly paid invoice dated day 0 and an
\* unpaid one dated 90 days earlier is 90 days overdue on day 0
C27_Witness ==
    \E q \in Requests : \E l \in ledgers :
        /\ rd[q].done >= 2
        /\ l.company_guid = rd[q].company
        /\ l.parent_group = "Sundry Debtors"
        /\ \E v, w \in OpenInvoices(l) :
             /\ v.date = 0 /\ v.payment_status = "PARTIAL"
             /\ w.date = -90 /\ w.payment_status = "UNPAID"
        /\ CurrentDate(l.aging_computed_at[1]) = 0
        /\ l.days_overdue = Some(90)

\* job j calls refresh_company_ai_data in this step
Invokes(j) == pc[j] = "loop" /\ pc'[j] = "cs_begin"

\* C23: in every fleet cycle the full refresh is invoked only for tenants
\* with active = true, for each of them exactly once, and only when the
\* previous tenant's refresh has returned or failed; when the cycle has ended
\* every active tenant has been refreshed or has failed; and a cycle that has
\* entered its loop always reaches its end, however many tenants fail
C23_EachActiveTenantOnce ==
    /\ [](\A j \in Jobs :
            /\ pc[j] \in StagePcs => companies[cur[j]] = TRUE
            /\ \A c \in Tenants :
                 /\ outcome[j][c] # "none" => companies[c] = TRUE
                 /\ (pc[j] = "done" /\ companies[c] = TRUE)
                      => outcome[j][c] \in {"ok", "failed"})
    /\ [][\A j \in Jobs :
            Invokes(j) =>
                /\ outcome[j][cur'[j]] = "none"
                /\ cur[j] # NoCompany => outcome[j][cur[j]] # "none"]_vars
    /\ \A j \in Jobs : (pc[j] = "loop") ~> (pc[j] = "done")

\* C23 witness: a cycle over the active tenants B and A, in that order, has
\* ended though both failed, and the inactive tenant C was never refreshed
C23_Witness ==
    \E j \in Jobs :
        /\ pc[j] = "done"
        /\ fetched[j] = << "B", "A" >>
        /\ outcome[j]["A"] = "failed"
        /\ outcome[j]["B"] = "failed"
        /\ companies["C"] = FALSE
        /\ outcome[j]["C"] = "none"

\* the last event of job j's log after this step
LastEvent(j) == log'[j][Len(log'[j])]

\* a stage of job j fails in this step
Fails(j) ==
    /\ pc[j] \in StagePcs
    /\ Len(log'[j]) = Len(log[j]) + 1
    /\ LastEvent(j) \in {"cs_fail", "bo_fail", "dm_fail"}

\* a stage of job j commits in this step
Commits(j) ==
    /\ pc[j] \in {"cs_commit", "bo_commit", "dm_commit"}
    /\ Len(log'[j]) = Len(log[j]) + 1
    /\ LastEvent(j) \in {"cs_commit", "bo_commit", "dm_commit"}

\* C24: no statement of a stage changes the committed rows of any derived
\* table before the stage commits; when a statement of a stage fails, the
\* three tables are left as they were, so every row the stage had deleted or
\* updated (the customer_summary rows of its DELETE among them) is still
\* there, nothing of the transaction is left to be published later, and the
\* error reaches the loop of refresh_all_companies: the tenant is marked
\* failed and none of its remaining stages has run
C24_FailedStageIsRolledBack ==
    [][\A j \in Jobs :
          /\ (pc[j] \in StagePcs /\ pc'[j] # pc[j] /\ ~Commits(j))
                => /\ customer_summary' = customer_summary
                   /\ business_overview' = business_overview
                   /\ dashboard_metrics' = dashboard_metrics
          /\ Fails(j)
                => /\ tx[j].del \subseteq
                        (customer_summary' \cup business_overview'
                            \cup dashboard_metrics')
                   /\ tx'[j].del = {} /\ tx'[j].new = {}
                   /\ LastEvent(j) = StageOf(pc[j]) \o "_fail"
                   /\ pc'[j] = "loop"
                   /\ outcome'[j][cur[j]] = "failed"
      ]_vars

\* C24 witness: the Customer Summary stage of company A failed after its
\* DELETE had removed the rows an earlier cycle left; the job is back in the
\* loop and the rows are still in customer_summary
C24_Witness ==
    \E j \in Jobs :
        /\ pc[j] = "loop"
        /\ cur[j] = "A"
        /\ log[j] = << "cs_start", "cs_fail" >>
        /\ outcome[j]["A"] = "failed"
        /\ tx[j].undone = OfCompany(StaleSummaries, "A")
        /\ tx[j].undone \subseteq customer_summary

\* C29: a reader of the committed customer_summary never sees a row whose
\* sales_rank or outstanding_rank is the placeholder 0, nor a row whose
\* sales_formatted is the placeholder while its sales_value is not 0; and
\* the committed rows of a company change only when a Customer Summary
\* transaction commits, to a state with a row for every customer account of
\* the company, never to the state between the DELETE and the INSERT
C29_ReplacementIsAtomicForReaders ==
    /\ [](\A r \in customer_summary :
            /\ r.sales_rank >= 1
            /\ r.outstanding_rank >= 1
            /\ r.sales_value # 0 => r.sales_formatted # Money(0, 0, ""))
    /\ [][\A c \in Tenants :
            OfCompany(customer_summary', c) # OfCompany(customer_summary, c)
                => /\ \E j \in Jobs : /\ cur[j] = c
                                      /\ pc[j] = "cs_commit"
                                      /\ Commits(j)
                   /\ \A l \in ledgers :
                        CustomerFilter(l, c) =>
                            \E r \in OfCompany(customer_summary', c) :
                                r.customer_guid = l.guid]_vars

\* C29 witness: in the middle of a refresh of company A the transaction has
\* deleted the rows an earlier cycle left and inserted rows with placeholder
\* ranks and text, while the committed table still shows the earlier rows
C29_Witness ==
    \E j \in Jobs :
        /\ pc[j] = "cs_rank"
        /\ cur[j] = "A"
        /\ tx[j].del = OfCompany(StaleSummaries, "A")
        /\ \E r \in tx[j].new : /\ r.sales_rank = 0
                                /\ r.outstanding_rank = 0
                                /\ r.sales_value # 0
                                /\ r.sales_formatted = Money(0, 0, "")
        /\ OfCompany(customer_summary, "A") = OfCompany(StaleSummaries, "A")

\* the kind of voucher a label stands for
LabelKind(ty) ==
    IF ty \in {"Sales", "SALES", "Invoice", "Sales Invoice"} THEN "sale"
    ELSE IF ty \in {"Receipt", "RECEIPT", "Payment Received"} THEN "receipt"
    ELSE ty

\* the non-cancelled vouchers of account l
Live(l) == { v \in vouchers : v.party_ledger_id = l.id /\ ~v.is_cancelled }

\* how many non-cancelled vouchers of each kind and amount account l has
Profile(l) ==
    [ k \in { << LabelKind(v.voucher_type), v.total_amount >> : v \in Live(l) }
        |-> Cardinality({ v \in Live(l) :
                            << LabelKind(v.voucher_type), v.total_amount >> = k }) ]

\* C21: two accounts of a refreshed company with the same opening balance
\* whose non-cancelled vouchers differ only by labels of the same kind
\* ('Sales', 'SALES', 'Invoice', 'Sales Invoice'; 'Receipt', 'RECEIPT',
\* 'Payment Received') have the same sales_value, sales_count,
\* receipts_value, outstanding_amount, average_order_value,
\* outstanding_formatted and balance_status; and two non-cancelled vouchers of
\* a company the invoice-aging pass has run for that differ only by such
\* labels have the same payment_status, amount_paid and amount_outstanding
C21_LabelsAreSynonyms ==
    /\ \A c \in refreshed : \A r1, r2 \in OfCompany(customer_summary, c) :
         ( /\ LedgerOf(r1).opening_balance = LedgerOf(r2).opening_balance
           /\ Profile(LedgerOf(r1)) = Profile(LedgerOf(r2)) )
             => /\ r1.sales_value = r2.sales_value
                /\ r1.sales_count = r2.sales_count
                /\ r1.receipts_value = r2.receipts_value
                /\ r1.outstanding_amount = r2.outstanding_amount
                /\ r1.average_order_value = r2.average_order_value
                /\ r1.outstanding_formatted = r2.outstanding_formatted
                /\ r1.balance_status = r2.balance_status
    /\ \A q \in Requests :
         rd[q].done >= 1 =>
             \A v, w \in OfCompany(vouchers, rd[q].company) :
                 ( /\ ~v.is_cancelled /\ ~w.is_cancelled
                   /\ LabelKind(v.voucher_type) = LabelKind(w.voucher_type)
                   /\ v.total_amount = w.total_amount
                   /\ ActiveSum(v) = ActiveSum(w) )
                     => /\ v.payment_status = w.payment_status
                        /\ v.amount_paid = w.amount_paid
                        /\ v.amount_outstanding = w.amount_outstanding

\* C25: the invoice-aging pipeline and the three stages of a tenant are
\* independent: whenever both have finished for the tenant, in whichever
\* order or interleaving, the dashboard_metrics row of the day of the
\* invoice-aging run holds the same total_receivable and customer_count,
\* namely those it holds when the invoice-aging run comes last
C25_PipelinesAreIndependent ==
    \A c \in Tenants : \A q \in Requests : \A j \in Jobs :
        ( /\ rd[q].pc = "done" /\ rd[q].company = c
          /\ outcome[j][c] = "ok" /\ (cur[j] = c => pc[j] \notin StagePcs) )
            => \A r \in SnapshotsOf(dashboard_metrics, c,
                                    rd[q].wrote[1].data_as_of_date) :
                 /\ r.total_receivable = rd[q].wrote[1].total_receivable
                 /\ r.customer_count = rd[q].wrote[1].customer_count

\* C28: a step of a refresh for one tenant (a statement or a commit of the
\* three stages, or a statement of the invoice-aging pipeline) leaves every
\* customer_summary, business_overview and dashboard_metrics row and every
\* voucher and ledger row of every other tenant as it was
C28_OtherTenantsUntouched ==
    [][\A b \in Tenants :
          ( /\ \A j \in Jobs : pc'[j] # pc[j] => cur'[j] # b
            /\ \A q \in Requests : rd'[q] # rd[q] => rd'[q].company # b )
              => /\ OfCompany(customer_summary', b) = OfCompany(customer_summary, b)
                 /\ OfCompany(business_overview', b) = OfCompany(business_overview, b)
                 /\ OfCompany(dashboard_metrics', b) = OfCompany(dashboard_metrics, b)
                 /\ OfCompany(vouchers', b) = OfCompany(vouchers, b)
                 /\ OfCompany(ledgers', b) = OfCompany(ledgers, b)
      ]_vars

\* C28 witness: the three stages and the invoice-aging pipeline have both
\* run for tenant A and rewritten its rows, and the rows of tenant B are the
\* ones the store started with
C28_Witness ==
    /\ outcome["startup"]["A"] = "ok"
    /\ rd["first"].pc = "done" /\ rd["first"].company = "A"
    /\ \A r \in OfCompany(customer_summary, "A") : r.rid = << "startup", 1 >>
    /\ \E v \in OfCompany(vouchers, "A") : v.payment_status = "PARTIAL"
    /\ \E l \in OfCompany(ledgers, "A") : l.days_overdue # Null
    /\ OfCompany(customer_summary, "B") = OfCompany(StaleSummaries, "B")
    /\ OfCompany(business_overview, "B") = { StaleOverview("B", 7) }
    /\ OfCompany(dashboard_metrics, "B") = { DashStale("B", 0) }
    /\ OfCompany(vouchers, "B")
         = { DashVoucher(3, "B", 4, "SALES", 60, FALSE, 0, Null) }
    /\ OfCompany(ledgers, "B") = { BothLedger(4, "B", Beta, Some(0), Some(7)) }

====
